---- MODULE Spec2Model ----
(***************************************************************************)
(* Face recognition service: image ingestion and preprocessing, the        *)
(* embedding backend adapter with its lifecycle, the distance engine, the  *)
(* ranking of a query against references and the match decision, as state *)
(* machines over the operations of the Python sources.                     *)
(*                                                                         *)
(* Floating point numbers are fixed-point values (a real r is the integer  *)
(* r * Scale, arithmetic rounds towards minus infinity) extended with the  *)
(* IEEE specials: [k |-> "fin", v |-> n], [k |-> "inf", v |-> sign],       *)
(* [k |-> "nan", v |-> 0].                                                 *)
(***************************************************************************)
EXTENDS Integers, Sequences, FiniteSets, TLC

VARIABLES
    phase,      \* position of the lifespan context manager of the app
    instance,   \* the module global _model_instance and its .model field
    call        \* the operation that ran last, with its inputs and outcome

vars == <<phase, instance, call>>

---------------------------------------------------------------------------
(* Bounds of the model *)

\* resolution of the fixed-point numbers: 1.0 is Scale
Scale == 8000

\* settings.embedding_size, 512 in the program, scaled down
embedding_size == 2

\* longest reference list handed to find_best_match / batch_calculate_distances
MaxRefs == 3

\* most faces the backend reports for one image
MaxFaces == 3

---------------------------------------------------------------------------
(* Floating point values *)

Fin(n) == [k |-> "fin", v |-> n]
PosInf == [k |-> "inf", v |-> 1]
NegInf == [k |-> "inf", v |-> -1]
NaN == [k |-> "nan", v |-> 0]

\* the float of the real number n
Real(n) == Fin(n * Scale)

IsNaN(a) == a.k = "nan"
IsInf(a) == a.k = "inf"
IsFin(a) == a.k = "fin"

Sign(n) == IF n < 0 THEN -1 ELSE 1

Abs(n) == IF n < 0 THEN -n ELSE n

FNeg(a) ==
    CASE a.k = "fin" -> Fin(-a.v)
      [] a.k = "inf" -> [k |-> "inf", v |-> -a.v]
      [] OTHER -> NaN

FAdd(a, b) ==
    CASE IsNaN(a) \/ IsNaN(b) -> NaN
      [] IsInf(a) /\ IsInf(b) -> IF a.v = b.v THEN a ELSE NaN
      [] IsInf(a) -> a
      [] IsInf(b) -> b
      [] OTHER -> Fin(a.v + b.v)

FSub(a, b) == FAdd(a, FNeg(b))

FMul(a, b) ==
    CASE IsNaN(a) \/ IsNaN(b) -> NaN
      [] IsInf(a) /\ IsFin(b) /\ b.v = 0 -> NaN
      [] IsInf(b) /\ IsFin(a) /\ a.v = 0 -> NaN
      [] IsInf(a) \/ IsInf(b) -> [k |-> "inf", v |-> Sign(a.v) * Sign(b.v)]
      [] OTHER -> Fin((a.v * b.v) \div Scale)

\* numpy division: dividing by zero gives inf or nan, it does not raise
FDiv(a, b) ==
    CASE IsNaN(a) \/ IsNaN(b) -> NaN
      [] IsInf(a) /\ IsInf(b) -> NaN
      [] IsInf(a) -> [k |-> "inf", v |-> a.v * Sign(b.v)]
      [] IsInf(b) -> Fin(0)
      [] b.v = 0 -> IF a.v = 0 THEN NaN ELSE [k |-> "inf", v |-> Sign(a.v)]
      [] b.v < 0 -> Fin(((-a.v) * Scale) \div (-b.v))
      [] OTHER -> Fin((a.v * Scale) \div b.v)

\* a < b on floats: every comparison with nan is false
FLt(a, b) ==
    CASE IsNaN(a) \/ IsNaN(b) -> FALSE
      [] IsInf(a) /\ IsInf(b) -> a.v < b.v
      [] IsInf(a) -> a.v < 0
      [] IsInf(b) -> b.v > 0
      [] OTHER -> a.v < b.v

FLe(a, b) == FLt(a, b) \/ (~IsNaN(a) /\ a = b)

RECURSIVE IsqrtIn(_, _, _)
IsqrtIn(n, lo, hi) ==
    IF lo >= hi THEN lo
    ELSE LET mid == (lo + hi + 1) \div 2
         IN  IF mid * mid <= n THEN IsqrtIn(n, mid, hi) ELSE IsqrtIn(n, lo, mid - 1)

\* the integer square root, rounded down (46340 is the largest root TLC's integers hold)
Isqrt(n) == IsqrtIn(n, 0, IF n < 46340 THEN n ELSE 46340)

FSqrt(a) ==
    CASE IsNaN(a) -> NaN
      [] IsInf(a) -> IF a.v > 0 THEN PosInf ELSE NaN
      [] a.v < 0 -> NaN
      [] OTHER -> Fin(Isqrt(a.v * Scale))

---------------------------------------------------------------------------
(* Results of calls that may raise *)

Ok(v) == [ok |-> TRUE, val |-> v]
Raise(e) == [ok |-> FALSE, exc |-> e]

\* an ImageProcessingError / FaceModelError with its error_code
Fail(code) == [ok |-> FALSE, exc |-> "DomainError", error_code |-> code]

---------------------------------------------------------------------------
(* embedding_utils.py: the distance engine *)

RECURSIVE SumSeq(_)
SumSeq(s) == IF s = <<>> THEN Fin(0) ELSE FAdd(SumSeq(SubSeq(s, 1, Len(s) - 1)), s[Len(s)])

\* np.dot of two 1-D arrays
dot(a, b) == SumSeq([i \in 1..Len(a) |-> FMul(a[i], b[i])])

\* np.linalg.norm of a 1-D array: the L2 norm
linalg_norm(v) == FSqrt(SumSeq([i \in 1..Len(v) |-> FMul(v[i], v[i])]))

\* np.linalg.norm of a 2-D array without axis: the Frobenius norm of the whole matrix
linalg_norm_2d(m) == FSqrt(SumSeq([r \in 1..Len(m) |-> SumSeq([i \in 1..Len(m[r]) |-> FMul(m[r][i], m[r][i])])]))

\* mutant of normalize_embedding: the division is made whatever the norm
normalize_embedding_always_divides(embedding) ==
    LET norm == linalg_norm(embedding)
    IN  [i \in 1..Len(embedding) |-> FDiv(embedding[i], norm)]

normalize_embedding(embedding) ==
    LET norm == linalg_norm(embedding)
    IN  IF norm = Fin(0) THEN embedding
        ELSE [i \in 1..Len(embedding) |-> FDiv(embedding[i], norm)]

\* normalize_embedding applied to a 2-D array: one norm for all the rows
normalize_embedding_2d(m) ==
    LET norm == linalg_norm_2d(m)
    IN  IF norm = Fin(0) THEN m
        ELSE [r \in 1..Len(m) |-> [i \in 1..Len(m[r]) |-> FDiv(m[r][i], norm)]]

\* np.clip(x, lo, hi): nan stays nan
clip(x, lo, hi) ==
    IF IsNaN(x) THEN NaN
    ELSE IF FLt(x, lo) THEN lo
    ELSE IF FLt(hi, x) THEN hi
    ELSE x

\* mutant of cosine_distance: the similarity is returned in place of the distance
cosine_distance_as_similarity(embedding1, embedding2) ==
    clip(dot(normalize_embedding(embedding1), normalize_embedding(embedding2)), Real(-1), Real(1))

cosine_distance(embedding1, embedding2) ==
    LET emb1_norm == normalize_embedding(embedding1)
        emb2_norm == normalize_embedding(embedding2)
        cosine_sim == clip(dot(emb1_norm, emb2_norm), Real(-1), Real(1))
    IN  FSub(Real(1), cosine_sim)

euclidean_distance(embedding1, embedding2) ==
    LET diff == [i \in 1..Len(embedding1) |-> FSub(embedding1[i], embedding2[i])]
    IN  linalg_norm(diff)

calculate_distance(embedding1, embedding2, metric) ==
    IF metric = "cosine" THEN Ok(cosine_distance(embedding1, embedding2))
    ELSE IF metric = "euclidean" THEN Ok(euclidean_distance(embedding1, embedding2))
    ELSE Raise("ValueError")

\* Python's min(a, b) and max(a, b): the first argument unless the second is
\* smaller (greater); a comparison with nan is false
PyMin(a, b) == IF FLt(b, a) THEN b ELSE a
PyMax(a, b) == IF FLt(a, b) THEN b ELSE a

\* Python's a / b on floats: raises ZeroDivisionError when b is zero
PyDiv(a, b) == IF IsFin(b) /\ b.v = 0 THEN Raise("ZeroDivisionError") ELSE Ok(FDiv(a, b))

distance_to_similarity(distance, metric) ==
    IF metric = "cosine" THEN
        LET similarity == FSub(Real(1), FDiv(distance, Real(2)))
        IN  Ok(PyMax(Fin(0), PyMin(Real(1), similarity)))
    ELSE IF metric = "euclidean" THEN
        LET q == PyDiv(Real(1), FAdd(Real(1), distance))
        IN  IF q.ok THEN Ok(PyMax(Fin(0), PyMin(Real(1), q.val))) ELSE q
    ELSE Raise("ValueError")

---------------------------------------------------------------------------
(* Numbers as callers supply them: Python floats (64 bit). A finite value   *)
(* carries lo, the part of it below the resolution of a 32-bit float, and   *)
(* "huge" is a finite value beyond the range of a 32-bit float.             *)

F64(n, lo) == [k |-> "fin", v |-> n, lo |-> lo]
Huge == [k |-> "huge", v |-> 1, lo |-> 0]
F64Inf == [k |-> "inf", v |-> 1, lo |-> 0]
F64NaN == [k |-> "nan", v |-> 0, lo |-> 0]

\* np.array(x, dtype=np.float32) on one component: rounds, and overflows to inf
ToFloat32(x) ==
    CASE x.k = "fin" -> Fin(x.v)
      [] x.k = "huge" -> [k |-> "inf", v |-> x.v]
      [] x.k = "inf" -> [k |-> "inf", v |-> x.v]
      [] OTHER -> NaN

np_array_float32(list) == [i \in 1..Len(list) |-> ToFloat32(list[i])]

---------------------------------------------------------------------------
(* list.sort(key=lambda x: x.distance): CPython's sort of a short list, a   *)
(* run detection followed by a binary insertion sort, both using only <     *)

KeyLt(x, y) == FLt(x.distance, y.distance)

Reverse(s) == [i \in 1..Len(s) |-> s[Len(s) + 1 - i]]

RECURSIVE CountRun(_, _, _)
CountRun(s, n, descending) ==
    IF n < Len(s) /\ (KeyLt(s[n + 1], s[n]) = descending)
    THEN CountRun(s, n + 1, descending)
    ELSE n

RECURSIVE Bisect(_, _, _, _)
Bisect(s, pivot, l, r) ==
    IF l >= r THEN l
    ELSE LET p == l + ((r - l) \div 2)
         IN  IF KeyLt(pivot, s[p + 1]) THEN Bisect(s, pivot, l, p)
             ELSE Bisect(s, pivot, p + 1, r)

RECURSIVE BinarySort(_, _)
BinarySort(s, start) ==
    IF start >= Len(s) THEN s
    ELSE LET pivot == s[start + 1]
             l == Bisect(s, pivot, 0, start)
         IN  BinarySort(SubSeq(s, 1, l) \o <<pivot>> \o SubSeq(s, l + 1, start)
                           \o SubSeq(s, start + 2, Len(s)), start + 1)

\* mutant of list_sort: the list is returned as built, never sorted
list_sort_unsorted(s) == s

list_sort(s) ==
    IF Len(s) < 2 THEN s
    ELSE LET descending == KeyLt(s[2], s[1])
             n == CountRun(s, 2, descending)
             run == IF descending
                    THEN Reverse(SubSeq(s, 1, n)) \o SubSeq(s, n + 1, Len(s))
                    ELSE s
         IN  BinarySort(run, n)

---------------------------------------------------------------------------
(* embedding_utils.py: ranking *)

\* the MatchResult of one reference, or the exception its computation raises
MatchOf(query_array, ref, metric) ==
    LET d == calculate_distance(query_array, np_array_float32(ref.embedding), metric)
    IN  IF ~d.ok THEN d
        ELSE LET sim == distance_to_similarity(d.val, metric)
             IN  IF ~sim.ok THEN sim
                 ELSE Ok([id |-> ref.id, distance |-> d.val, similarity |-> sim.val])

find_best_match(query_embedding, reference_embeddings, metric) ==
    LET query_array == np_array_float32(query_embedding)
        made == [i \in 1..Len(reference_embeddings) |->
                    MatchOf(query_array, reference_embeddings[i], metric)]
        bad == {i \in 1..Len(made) : ~made[i].ok}
    IN  IF bad # {} THEN made[CHOOSE i \in bad : \A j \in bad : i <= j]
        ELSE IF made = <<>> THEN Raise("IndexError")
        ELSE LET matches == list_sort([i \in 1..Len(made) |-> made[i].val])
             IN  Ok([matches |-> matches, best_match |-> matches[1]])

batch_calculate_distances(query_embedding, reference_embeddings, metric) ==
    IF metric = "cosine" THEN
        LET query_norm == normalize_embedding(query_embedding)
            refs_norm == normalize_embedding_2d(reference_embeddings)
        IN  Ok([r \in 1..Len(refs_norm) |-> FSub(Real(1), dot(refs_norm[r], query_norm))])
    ELSE IF metric = "euclidean" THEN
        Ok([r \in 1..Len(reference_embeddings) |->
               linalg_norm([i \in 1..Len(query_embedding) |->
                               FSub(reference_embeddings[r][i], query_embedding[i])])])
    ELSE Raise("ValueError")

\* a Python value handed to is_valid_embedding: its type and, for a sequence,
\* its items
PyValue(type, items) == [type |-> type, items |-> items]

\* is_valid_embedding: np.array(embedding, dtype=np.float32) raises on an item
\* that is not a number, and rounds a float beyond the 32-bit range to inf
is_valid_embedding(embedding, expected_size) ==
    IF embedding.type \notin {"list", "ndarray"} THEN FALSE
    ELSE IF Len(embedding.items) # expected_size THEN FALSE
    ELSE IF \E i \in 1..Len(embedding.items) : embedding.items[i].k = "str" THEN FALSE
    ELSE LET arr == np_array_float32(embedding.items)
         IN  ~(\E i \in 1..Len(arr) : IsNaN(arr[i]) \/ IsInf(arr[i]))

---------------------------------------------------------------------------
(* The state before any operation has run *)

NoInstance == [exists |-> FALSE, model |-> "None"]
NoCall == [op |-> "none"]

Idle == phase = "created" /\ instance = NoInstance /\ call = NoCall

Metrics == {"cosine", "euclidean"}

---------------------------------------------------------------------------
(* Inputs of the distance engine: embeddings of embedding_size components   *)

\* a list of Python floats whose first two components are a and b
List2(a, b) == [i \in 1..embedding_size |-> IF i = 1 THEN a ELSE IF i = 2 THEN b ELSE F64(0, 0)]

\* embeddings as callers of find_best_match supply them
EmbeddingLists ==
    { List2(F64(Scale, 0), F64(0, 0)),          \* (1, 0)
      List2(F64(2 * Scale, 0), F64(0, 0)),      \* (2, 0): same direction as (1, 0)
      List2(F64(0, 0), F64(Scale, 0)),          \* (0, 1)
      List2(F64(Scale, 0), F64(2 * Scale, 0)),  \* (1, 2): its normalisation rounds
      List2(F64(0, 0), F64(0, 0)),              \* the zero vector
      List2(F64(Scale, 1), F64(0, 0)),          \* (1, 0) up to the resolution of float32
      List2(Huge, F64(0, 0)) }                  \* finite, but inf as a 32-bit float

RECURSIVE SeqsUpTo(_, _)
SeqsUpTo(S, n) ==
    IF n = 0 THEN {<<>>}
    ELSE LET shorter == SeqsUpTo(S, n - 1)
         IN  shorter \cup {Append(q, x) : q \in {t \in shorter : Len(t) = n - 1}, x \in S}

\* ReferenceEmbedding lists; the id of a reference is its position in the list
ReferenceLists ==
    { [i \in 1..Len(es) |-> [id |-> i, embedding |-> es[i]]] :
        es \in SeqsUpTo(EmbeddingLists, MaxRefs) \ {<<>>} }

---------------------------------------------------------------------------
(* SpecRank: find_best_match applied once to a query and a reference list   *)

ApplyFindBestMatch ==
    /\ call = NoCall
    /\ \E query \in EmbeddingLists, refs \in ReferenceLists, metric \in Metrics :
          call' = [op |-> "find_best_match", query |-> query, refs |-> refs,
                   metric |-> metric, ret |-> find_best_match(query, refs, metric)]
    /\ UNCHANGED <<phase, instance>>

RankNext == ApplyFindBestMatch

SpecRank == Idle /\ [][RankNext]_vars

---------------------------------------------------------------------------
(* Claims about find_best_match, under SpecRank *)

RankCall == call.op = "find_best_match"

Matches == call.ret.val.matches

BestMatch == call.ret.val.best_match

\* the distance find_best_match computes for the reference at position i
RefDistance(i) ==
    calculate_distance(np_array_float32(call.query),
                       np_array_float32(call.refs[i].embedding), call.metric).val

NoNaNDistance == \A i \in 1..Len(call.refs) : ~IsNaN(RefDistance(i))

\* one MatchResult per reference, each with the distance of its reference,
\* and the best match is the head of the list
RankedComplete ==
    /\ Len(Matches) = Len(call.refs)
    /\ {Matches[i].id : i \in 1..Len(Matches)} = {call.refs[i].id : i \in 1..Len(call.refs)}
    /\ \A i \in 1..Len(Matches) : Matches[i].distance = RefDistance(Matches[i].id)
    /\ BestMatch = Matches[1]

\* no later match is closer than an earlier one, equal distances keep the
\* input order, and nothing is closer than the best match
RankedAscending ==
    /\ \A i, j \in 1..Len(Matches) :
          i < j => ~FLt(Matches[j].distance, Matches[i].distance)
    /\ \A i, j \in 1..Len(Matches) :
          i < j /\ Matches[i].distance = Matches[j].distance => Matches[i].id < Matches[j].id
    /\ \A i \in 1..Len(Matches) : ~FLt(Matches[i].distance, BestMatch.distance)

IdenticalRefs == {i \in 1..Len(call.refs) : call.refs[i].embedding = call.query}

TheIdentical == CHOOSE i \in IdenticalRefs : TRUE

\* d < 0.001
BelowEpsilon(d) == IsFin(d) /\ 1000 * d.v < Scale

QueryNorm == linalg_norm(np_array_float32(call.query))

---------------------------------------------------------------------------
(* SpecDistance: one of the distance functions applied once *)

\* a metric string no function supports
AnyMetric == Metrics \cup {"manhattan"}

\* embeddings as 32-bit arrays, among them (-1, 0), opposite to (1, 0)
Vectors ==
    {np_array_float32(e) : e \in EmbeddingLists}
        \cup {np_array_float32(List2(F64(-Scale, 0), F64(0, 0)))}

\* 2-D arrays of reference embeddings, one per row
Matrices == SeqsUpTo(Vectors, MaxRefs) \ {<<>>}

\* distances handed to distance_to_similarity: negative, zero, the two match
\* thresholds, the top of the cosine range, very large, and the specials
DistanceSamples ==
    {Fin(n) : n \in {-2 * Scale, -Scale, -1, 0, 1, (4 * Scale) \div 10, Scale,
                     2 * Scale, 2 * Scale + 1, 30 * Scale}}
        \cup {PosInf, NegInf, NaN}

ApplyDistanceToSimilarity ==
    /\ call = NoCall
    /\ \E distance \in DistanceSamples, metric \in AnyMetric :
          call' = [op |-> "distance_to_similarity", distance |-> distance,
                   metric |-> metric, ret |-> distance_to_similarity(distance, metric)]
    /\ UNCHANGED <<phase, instance>>

ApplyCalculateDistance ==
    /\ call = NoCall
    /\ \E embedding1 \in Vectors, embedding2 \in Vectors, metric \in AnyMetric :
          call' = [op |-> "calculate_distance", embedding1 |-> embedding1,
                   embedding2 |-> embedding2, metric |-> metric,
                   ret |-> calculate_distance(embedding1, embedding2, metric)]
    /\ UNCHANGED <<phase, instance>>

ApplyBatchCalculateDistances ==
    /\ call = NoCall
    /\ \E query \in Vectors, refs \in Matrices, metric \in AnyMetric :
          call' = [op |-> "batch_calculate_distances", query |-> query, refs |-> refs,
                   metric |-> metric,
                   ret |-> batch_calculate_distances(query, refs, metric)]
    /\ UNCHANGED <<phase, instance>>

\* distance_to_similarity applied to two distances under one metric
ApplyDistanceToSimilarityTwice ==
    /\ call = NoCall
    /\ \E d1 \in DistanceSamples, d2 \in DistanceSamples, metric \in Metrics :
          call' = [op |-> "distance_to_similarity_twice", d1 |-> d1, d2 |-> d2,
                   metric |-> metric, ret1 |-> distance_to_similarity(d1, metric),
                   ret2 |-> distance_to_similarity(d2, metric)]
    /\ UNCHANGED <<phase, instance>>

ApplyNormalizeEmbedding ==
    /\ call = NoCall
    /\ \E embedding \in Vectors :
          call' = [op |-> "normalize_embedding", embedding |-> embedding,
                   ret |-> normalize_embedding(embedding)]
    /\ UNCHANGED <<phase, instance>>

\* a string where a float is expected
PyStr == [k |-> "str", v |-> 0, lo |-> 0]

\* values handed to is_valid_embedding: lists, arrays and tuples of
\* embedding_size - 1 to embedding_size + 1 items, each 0.1, nan, inf, a float
\* beyond the 32-bit range, or a string
ValuesToValidate ==
    {PyValue(t, items) :
        t \in {"list", "ndarray", "tuple"},
        items \in UNION {[1..n -> {F64(Scale \div 10, 0), F64NaN, F64Inf, Huge, PyStr}] :
                            n \in (embedding_size - 1)..(embedding_size + 1)}}

ApplyIsValidEmbedding ==
    /\ call = NoCall
    /\ \E embedding \in ValuesToValidate :
          call' = [op |-> "is_valid_embedding", embedding |-> embedding,
                   expected_size |-> embedding_size,
                   ret |-> is_valid_embedding(embedding, embedding_size)]
    /\ UNCHANGED <<phase, instance>>

DistanceNext ==
    \/ ApplyDistanceToSimilarity
    \/ ApplyCalculateDistance
    \/ ApplyBatchCalculateDistances
    \/ ApplyDistanceToSimilarityTwice
    \/ ApplyNormalizeEmbedding
    \/ ApplyIsValidEmbedding

SpecDistance == Idle /\ [][DistanceNext]_vars

---------------------------------------------------------------------------
(* Claims about the distance functions, under SpecDistance *)

\* C7: distance_to_similarity returns a value in [0, 1] for every distance,
\* negative and very large ones included, and never raises for a supported
\* metric
C7_SimilarityInUnitRange ==
    call.op = "distance_to_similarity" /\ call.metric \in Metrics =>
        /\ call.ret.ok
        /\ IsFin(call.ret.val)
        /\ 0 <= call.ret.val.v /\ call.ret.val.v <= Scale

\* C8: every entry of batch_calculate_distances is the distance
\* calculate_distance gives for the query and that row
C8_BatchEqualsPairwise ==
    call.op = "batch_calculate_distances" /\ call.metric \in Metrics =>
        /\ call.ret.ok
        /\ Len(call.ret.val) = Len(call.refs)
        /\ \A i \in 1..Len(call.refs) :
              call.ret.val[i] = calculate_distance(call.query, call.refs[i], call.metric).val

---------------------------------------------------------------------------
(* image_utils.py: buffers and payloads *)

\* settings.max_image_size: 10 * 1024 * 1024 bytes
max_image_size == 10485760

\* settings.allowed_image_formats
allowed_image_formats == {"jpg", "jpeg", "png", "bmp", "webp"}

\* str.lower() on the format names PIL reports and on the metric names sent
Lower(format) ==
    CASE format = "JPEG" -> "jpeg"
      [] format = "PNG" -> "png"
      [] format = "BMP" -> "bmp"
      [] format = "WEBP" -> "webp"
      [] format = "GIF" -> "gif"
      [] format = "TIFF" -> "tiff"
      [] format = "COSINE" -> "cosine"
      [] format = "Euclidean" -> "euclidean"
      [] OTHER -> format

\* a numpy array: its dtype, its shape and the channel values of one pixel
NdArray(dtype, shape, px) == [kind |-> "ndarray", dtype |-> dtype, shape |-> shape, px |-> px]

\* what is not an array: None, or an object of another type
NoneImage == [kind |-> "None", dtype |-> "none", shape |-> <<>>, px |-> <<>>]
NotAnArray == [kind |-> "object", dtype |-> "none", shape |-> <<>>, px |-> <<>>]

RECURSIVE Product(_)
Product(shape) == IF shape = <<>> THEN 1 ELSE shape[1] * Product(Tail(shape))

\* the bytes of an image file as PIL sees them: parse is "image" (opens and
\* decodes), "truncated" (opens, fails when the pixels are read) or "garbage"
\* (Image.open raises); format and mode are PIL's, height and width the size
Payload(nbytes, parse, format, mode, height, width) ==
    [nbytes |-> nbytes, parse |-> parse, format |-> format, mode |-> mode,
     height |-> height, width |-> width]

\* the call made and its outcome
Traced(ret, trace) == [ret |-> ret, trace |-> trace]

load_image_from_bytes(image_bytes) ==
    IF image_bytes.parse = "garbage" THEN Fail("INVALID_IMAGE")
    ELSE IF image_bytes.format # "None" /\ Lower(image_bytes.format) \notin allowed_image_formats
         THEN Fail("UNSUPPORTED_FORMAT")
    ELSE IF image_bytes.parse = "truncated" THEN Fail("INVALID_IMAGE")
    ELSE \* converted to RGB, then to BGR: three channels whatever the mode
         Ok(NdArray("uint8", <<image_bytes.height, image_bytes.width, 3>>, <<3, 2, 1>>))

\* len(base64.b64encode(b)) for nbytes bytes
B64Len(nbytes) == 4 * ((nbytes + 2) \div 3)

\* mutant of decode_base64_image: the size limit is applied to the base64 string
decode_base64_image_string_limit(base64_string) ==
    IF base64_string.b64 = "bad_padding" THEN Traced(Fail("INVALID_IMAGE"), <<"b64decode">>)
    ELSE IF B64Len(base64_string.payload.nbytes) > max_image_size
         THEN Traced(Fail("IMAGE_TOO_LARGE"), <<"b64decode">>)
    ELSE Traced(load_image_from_bytes(base64_string.payload),
                <<"b64decode", "load_image_from_bytes">>)

\* base64_string: whether it has a data URI prefix (stripped before decoding),
\* what base64.b64decode makes of it ("valid"; "stray_characters": it holds
\* characters outside the alphabet, which b64decode discards; "bad_padding":
\* b64decode raises binascii.Error), and the bytes it decodes to
decode_base64_image(base64_string) ==
    IF base64_string.b64 = "bad_padding" THEN Traced(Fail("INVALID_IMAGE"), <<"b64decode">>)
    ELSE IF base64_string.payload.nbytes > max_image_size
         THEN Traced(Fail("IMAGE_TOO_LARGE"), <<"b64decode">>)
    ELSE Traced(load_image_from_bytes(base64_string.payload),
                <<"b64decode", "load_image_from_bytes">>)

\* mutant of fetch_image_from_url: a request that fails is sent once more
fetch_image_from_url_retrying(url) ==
    IF url.scheme \notin {"http", "https"} THEN Traced(Fail("INVALID_IMAGE"), <<>>)
    ELSE IF url.net = "timeout"
         THEN Traced(Fail("PROCESSING_ERROR"), <<"requests.get", "requests.get">>)
    ELSE IF url.net # "ok"
         THEN Traced(Fail("INVALID_IMAGE"), <<"requests.get", "requests.get">>)
    ELSE IF url.payload.nbytes > max_image_size
         THEN Traced(Fail("IMAGE_TOO_LARGE"), <<"requests.get">>)
    ELSE Traced(load_image_from_bytes(url.payload),
                <<"requests.get", "load_image_from_bytes">>)

\* url: its scheme, what the network does with the request (net), and the body
fetch_image_from_url(url) ==
    IF url.scheme \notin {"http", "https"} THEN Traced(Fail("INVALID_IMAGE"), <<>>)
    ELSE IF url.net = "timeout" THEN Traced(Fail("PROCESSING_ERROR"), <<"requests.get">>)
    ELSE IF url.net # "ok" THEN Traced(Fail("INVALID_IMAGE"), <<"requests.get">>)
    ELSE IF url.payload.nbytes > max_image_size
         THEN Traced(Fail("IMAGE_TOO_LARGE"), <<"requests.get">>)
    ELSE Traced(load_image_from_bytes(url.payload),
                <<"requests.get", "load_image_from_bytes">>)

\* the smallest and the largest height and width validate_image accepts
min_size == 32
max_size == 8192

\* mutant of validate_image: the smallest side accepted is min_size + 1
validate_image_above_min_size(image) ==
    IF image.kind = "None" THEN [valid |-> FALSE, msg |-> "Image is None"]
    ELSE IF image.kind # "ndarray" THEN [valid |-> FALSE, msg |-> "Image must be a numpy array"]
    ELSE IF Product(image.shape) = 0 THEN [valid |-> FALSE, msg |-> "Image is empty"]
    ELSE IF Len(image.shape) \notin {2, 3} THEN [valid |-> FALSE, msg |-> "Invalid image shape"]
    ELSE IF Len(image.shape) = 3 /\ image.shape[3] \notin {1, 3, 4}
         THEN [valid |-> FALSE, msg |-> "Invalid number of channels"]
    ELSE IF image.shape[1] <= min_size \/ image.shape[2] <= min_size
         THEN [valid |-> FALSE, msg |-> "Image too small"]
    ELSE IF image.shape[1] > max_size \/ image.shape[2] > max_size
         THEN [valid |-> FALSE, msg |-> "Image too large"]
    ELSE [valid |-> TRUE, msg |-> "None"]

\* validate_image: (is_valid, error_message)
validate_image(image) ==
    IF image.kind = "None" THEN [valid |-> FALSE, msg |-> "Image is None"]
    ELSE IF image.kind # "ndarray" THEN [valid |-> FALSE, msg |-> "Image must be a numpy array"]
    ELSE IF Product(image.shape) = 0 THEN [valid |-> FALSE, msg |-> "Image is empty"]
    ELSE IF Len(image.shape) \notin {2, 3} THEN [valid |-> FALSE, msg |-> "Invalid image shape"]
    ELSE IF Len(image.shape) = 3 /\ image.shape[3] \notin {1, 3, 4}
         THEN [valid |-> FALSE, msg |-> "Invalid number of channels"]
    ELSE IF image.shape[1] < min_size \/ image.shape[2] < min_size
         THEN [valid |-> FALSE, msg |-> "Image too small"]
    ELSE IF image.shape[1] > max_size \/ image.shape[2] > max_size
         THEN [valid |-> FALSE, msg |-> "Image too large"]
    ELSE [valid |-> TRUE, msg |-> "None"]

\* cv2.cvtColor: raises on a depth it does not support (float64)
cvtColor(image, code) ==
    IF image.dtype = "float64" THEN Raise("cv2.error")
    ELSE IF code = "COLOR_GRAY2BGR"
         THEN Ok(NdArray(image.dtype, <<image.shape[1], image.shape[2], 3>>,
                         <<image.px[1], image.px[1], image.px[1]>>))
    ELSE \* COLOR_BGRA2BGR
         Ok(NdArray(image.dtype, <<image.shape[1], image.shape[2], 3>>,
                    SubSeq(image.px, 1, 3)))

\* mutant of preprocess_image: validate_image is not called
preprocess_image_unvalidated(image) ==
    IF Len(image.shape) = 2 THEN
        LET c == cvtColor(image, "COLOR_GRAY2BGR")
        IN  IF c.ok THEN c ELSE Fail("PROCESSING_ERROR")
    ELSE IF image.shape[3] = 4 THEN
        LET c == cvtColor(image, "COLOR_BGRA2BGR")
        IN  IF c.ok THEN c ELSE Fail("PROCESSING_ERROR")
    ELSE Ok(image)

preprocess_image(image) ==
    IF ~validate_image(image).valid THEN Fail("INVALID_IMAGE")
    ELSE IF Len(image.shape) = 2 THEN
        LET c == cvtColor(image, "COLOR_GRAY2BGR")
        IN  IF c.ok THEN c ELSE Fail("PROCESSING_ERROR")
    ELSE IF image.shape[3] = 4 THEN
        LET c == cvtColor(image, "COLOR_BGRA2BGR")
        IN  IF c.ok THEN c ELSE Fail("PROCESSING_ERROR")
    ELSE Ok(image)

---------------------------------------------------------------------------
(* SpecImage: one of the image functions applied once *)

\* payload sizes: small, under the limit with a base64 text over it, the
\* limit, one byte more, 11 MiB
PayloadSizes == {1000, 7864321, max_image_size, max_image_size + 1, 11534336}

Payloads ==
    { Payload(n, c[1], c[2], c[3], c[4], c[5]) :
        n \in PayloadSizes,
        c \in { <<"image", "JPEG", "RGB", 100, 100>>,
                <<"image", "PNG", "RGBA", 100, 100>>,
                <<"image", "PNG", "L", 20, 20>>,
                <<"image", "GIF", "P", 100, 100>>,
                <<"truncated", "JPEG", "RGB", 100, 100>>,
                <<"garbage", "None", "None", 0, 0>> } }

Base64Strings ==
    [data_uri : BOOLEAN, b64 : {"valid", "stray_characters", "bad_padding"}, payload : Payloads]

Urls ==
    [scheme : {"http", "https", "ftp"},
     net : {"ok", "timeout", "http_error", "connection_error"},
     payload : Payloads]

Sides == {0, 20, min_size - 1, min_size, 100, max_size, max_size + 1}

Pixel(channels) == [i \in 1..channels |-> i]

ImageBuffers ==
    {NoneImage, NotAnArray}
        \cup {NdArray(t, <<h>>, <<>>) : t \in {"uint8", "float64"}, h \in {0, 100}}
        \cup {NdArray(t, <<h, w>>, Pixel(1)) : t \in {"uint8", "float64"}, h \in Sides, w \in Sides}
        \cup {NdArray(t, <<h, w, c>>, Pixel(c)) :
                t \in {"uint8", "float64"}, h \in Sides, w \in Sides, c \in 1..5}
        \cup {NdArray("uint8", <<100, 100, 3, 1>>, Pixel(3))}

ApplyDecodeBase64Image ==
    /\ call = NoCall
    /\ \E base64_string \in Base64Strings :
          call' = [op |-> "decode_base64_image", input |-> base64_string,
                   out |-> decode_base64_image(base64_string)]
    /\ UNCHANGED <<phase, instance>>

ApplyFetchImageFromUrl ==
    /\ call = NoCall
    /\ \E url \in Urls :
          call' = [op |-> "fetch_image_from_url", input |-> url,
                   out |-> fetch_image_from_url(url)]
    /\ UNCHANGED <<phase, instance>>

ApplyValidateImage ==
    /\ call = NoCall
    /\ \E image \in ImageBuffers :
          call' = [op |-> "validate_image", image |-> image, ret |-> validate_image(image)]
    /\ UNCHANGED <<phase, instance>>

ApplyPreprocessImage ==
    /\ call = NoCall
    /\ \E image \in ImageBuffers :
          call' = [op |-> "preprocess_image", image |-> image, ret |-> preprocess_image(image)]
    /\ UNCHANGED <<phase, instance>>

ImageNext ==
    \/ ApplyDecodeBase64Image
    \/ ApplyFetchImageFromUrl
    \/ ApplyValidateImage
    \/ ApplyPreprocessImage

SpecImage == Idle /\ [][ImageNext]_vars

---------------------------------------------------------------------------
(* Claims about the image functions, under SpecImage *)

\* the call is an ingestion call that got hold of the image bytes
IngestedBytes ==
    \/ call.op = "decode_base64_image" /\ call.input.b64 # "bad_padding"
    \/ call.op = "fetch_image_from_url" /\ call.input.scheme \in {"http", "https"}
                                        /\ call.input.net = "ok"

TooLarge == call.out.ret = Fail("IMAGE_TOO_LARGE")

PixelDecoded == \E i \in 1..Len(call.out.trace) : call.out.trace[i] = "load_image_from_bytes"

\* C3: on both ingestion paths bytes longer than max_image_size fail with
\* IMAGE_TOO_LARGE without load_image_from_bytes being called; the length
\* checked is that of the bytes, not of the base64 text, and exactly
\* max_image_size bytes pass the check
C3_SizeCheckedBeforeDecode ==
    IngestedBytes =>
        /\ (call.input.payload.nbytes > max_image_size => TooLarge /\ ~PixelDecoded)
        /\ (call.input.payload.nbytes <= max_image_size => ~TooLarge /\ PixelDecoded)

\* C3 witness: 11 MiB of a well-formed JPEG fetched from a URL are refused
\* before the pixel decode
C3_ElevenMiBRefused ==
    /\ call.op = "fetch_image_from_url" /\ IngestedBytes
    /\ call.input.payload.nbytes = 11534336
    /\ call.input.payload.parse = "image" /\ call.input.payload.format = "JPEG"
    /\ TooLarge /\ ~PixelDecoded

\* C10: for every buffer that passes validate_image, preprocess_image returns
\* a buffer of the same height and width with exactly 3 channels
C10_ThreeChannelsAfterPreprocess ==
    call.op = "preprocess_image" /\ validate_image(call.image).valid =>
        /\ call.ret.ok
        /\ call.ret.val.shape = <<call.image.shape[1], call.image.shape[2], 3>>

---------------------------------------------------------------------------
(* face_model.py: the backend adapter and its lifecycle *)

\* _model_instance after FaceRecognitionModel(): self.model is None
NewInstance == [exists |-> TRUE, model |-> "None"]

\* FaceRecognitionModel.load: FaceAnalysis(...) is assigned to self.model
\* before prepare() runs, so a prepare() that raises leaves it assigned
load(self, outcome) ==
    CASE outcome = "constructor_raises" ->
            [instance |-> self, ret |-> Fail("MODEL_NOT_LOADED")]
      [] outcome = "prepare_raises" ->
            [instance |-> [self EXCEPT !.model = "unprepared"], ret |-> Fail("MODEL_NOT_LOADED")]
      [] OTHER ->
            [instance |-> [self EXCEPT !.model = "prepared"], ret |-> Ok("None")]

initialize_model(outcome) == load(NewInstance, outcome)

\* mutant of cleanup_model: _model_instance is left as it is
cleanup_model_keeps_instance(inst) == inst

cleanup_model(inst) == IF inst.exists THEN NoInstance ELSE inst

get_model(inst) == IF ~inst.exists THEN Fail("MODEL_NOT_LOADED") ELSE Ok(inst)

is_loaded(self) == self.model # "None"

\* Python's None where a float may stand
PyNone == [k |-> "none", v |-> 0]

\* a face the backend reports: its embedding (present or None) and its
\* det_score (a value, None, or no such attribute)
Face(embedding, det) == [embedding |-> embedding, det |-> det]

Embedding(vec) == [present |-> TRUE, vec |-> vec]
NoEmbedding == [present |-> FALSE, vec |-> <<>>]

\* a FaceModelError that reports a count in its message
FailCount(code, n) == [ok |-> FALSE, exc |-> "DomainError", error_code |-> code, count |-> n]

\* mutant of get_embedding: with several faces the first one is used
get_embedding_first_face(self, answer, return_detection_info) ==
    IF ~is_loaded(self) THEN Traced(Fail("MODEL_NOT_LOADED"), <<>>)
    ELSE IF answer.raises THEN Traced(Fail("PROCESSING_ERROR"), <<"model.get">>)
    ELSE IF Len(answer.faces) = 0 THEN Traced(Fail("NO_FACE_DETECTED"), <<"model.get">>)
    ELSE LET face == answer.faces[1]
         IN  IF ~face.embedding.present \/ Len(face.embedding.vec) # embedding_size
             THEN Traced(Fail("INVALID_EMBEDDING"), <<"model.get">>)
             ELSE Traced(Ok([embedding |-> face.embedding.vec, detection_score |-> PyNone]),
                         <<"model.get">>)

\* get_embedding; answer is what self.model.get(image) does: it raises, or it
\* returns a list of faces
get_embedding(self, answer, return_detection_info) ==
    IF ~is_loaded(self) THEN Traced(Fail("MODEL_NOT_LOADED"), <<>>)
    ELSE IF answer.raises THEN Traced(Fail("PROCESSING_ERROR"), <<"model.get">>)
    ELSE IF Len(answer.faces) = 0 THEN Traced(Fail("NO_FACE_DETECTED"), <<"model.get">>)
    ELSE IF Len(answer.faces) > 1
         THEN Traced(FailCount("MULTIPLE_FACES_DETECTED", Len(answer.faces)), <<"model.get">>)
    ELSE LET face == answer.faces[1]
         IN  IF ~face.embedding.present \/ Len(face.embedding.vec) # embedding_size
             THEN Traced(Fail("INVALID_EMBEDDING"), <<"model.get">>)
             ELSE IF return_detection_info /\ face.det.state # "absent"
             THEN \* float(face.det_score): a TypeError when it is None
                  IF face.det.state = "None"
                  THEN Traced(Fail("PROCESSING_ERROR"), <<"model.get">>)
                  ELSE Traced(Ok([embedding |-> face.embedding.vec,
                                  detection_score |-> face.det.v]), <<"model.get">>)
             ELSE Traced(Ok([embedding |-> face.embedding.vec, detection_score |-> PyNone]),
                         <<"model.get">>)

detect_faces(self, answer) ==
    IF ~is_loaded(self) THEN Traced(Fail("MODEL_NOT_LOADED"), <<>>)
    ELSE IF answer.raises THEN Traced(Fail("PROCESSING_ERROR"), <<"model.get">>)
    ELSE Traced(Ok(Len(answer.faces)), <<"model.get">>)

---------------------------------------------------------------------------
(* main.py: the pairwise endpoints *)

HTTPException(status_code) == [ok |-> FALSE, exc |-> "HTTPException", status_code |-> status_code]

Response(status_code, body) == [status_code |-> status_code, body |-> body]

\* mutant of respond: every exception becomes a 500
respond_all_500(r) ==
    IF r.ok THEN Response(200, r.val)
    ELSE Response(500, [error_code |-> "None"])

\* the except clauses that close a handler, and the exception handlers of the
\* app: a FaceModelError or ImageProcessingError becomes a 400 with its error
\* code, any other exception raised in the try block, an HTTPException too,
\* becomes a 500
respond(r) ==
    IF r.ok THEN Response(200, r.val)
    ELSE IF r.exc = "DomainError" THEN Response(400, [error_code |-> r.error_code])
    ELSE Response(500, [error_code |-> "None"])

\* one stage of a handler: the image it works on (0 when it works on none)
\* and the function called
St(image, stage) == <<[image |-> image, stage |-> stage]>>

\* the calls a stage made, as its own trace reports them
Tag(image, trace) == [k \in 1..Len(trace) |-> [image |-> image, stage |-> trace[k]]]

\* f"{x:.4f}": a TypeError when x is None
format_4f(x) == IF x = PyNone THEN Raise("TypeError") ELSE Ok("str")

\* Field(ge=0.0, le=1.0)
InUnitInterval(x) == FLe(Fin(0), x) /\ FLe(x, Real(1))

\* ComparePhotosResponse(...): pydantic validates the fields
ComparePhotosResponse(match, similarity, distance, distance_metric, image1_detection_score, image2_detection_score) ==
    IF /\ InUnitInterval(similarity)
       /\ image1_detection_score = PyNone \/ InUnitInterval(image1_detection_score)
       /\ image2_detection_score = PyNone \/ InUnitInterval(image2_detection_score)
    THEN Ok([match |-> match, similarity |-> similarity, distance |-> distance,
             distance_metric |-> distance_metric,
             image1_detection_score |-> image1_detection_score,
             image2_detection_score |-> image2_detection_score])
    ELSE Raise("ValidationError")

\* ComparePhotosUploadRequest(...): keeps the fields it is given
ComparePhotosUploadRequest(image1, image2, distance_metric) ==
    [image1 |-> image1, image2 |-> image2, distance_metric |-> distance_metric]

\* base64.b64encode(bytes).decode("utf-8"): well-formed, no data URI prefix
b64encode(bytes) == [data_uri |-> FALSE, b64 |-> "valid", payload |-> bytes]

\* x < c for the constant c = num / den
LtConst(x, num, den) ==
    CASE IsNaN(x) -> FALSE
      [] IsInf(x) -> x.v < 0
      [] OTHER -> x.v * den < num * Scale

\* mutant of compare_photos_is_match: the thresholds are inclusive
compare_photos_is_match_inclusive(distance, distance_metric) ==
    IF Lower(distance_metric) = "cosine" THEN ~LtConst(FNeg(distance), -4, 10) /\ ~IsNaN(distance)
    ELSE ~LtConst(FNeg(distance), -1, 1) /\ ~IsNaN(distance)

\* the verdict of compare_photos
compare_photos_is_match(distance, distance_metric) ==
    IF Lower(distance_metric) = "cosine" THEN LtConst(distance, 4, 10)
    ELSE LtConst(distance, 1, 1)

\* the verdict of compare_photos_upload
compare_photos_upload_is_match(distance, request) ==
    IF request.distance_metric = "cosine" THEN LtConst(distance, 4, 10)
    ELSE LtConst(distance, 1, 1)

\* compare_photos, up to the value returned or the exception raised, with the
\* stages run: image1 is the URL sent (scheme "" for an empty string, " " for a
\* blank one), image2 the bytes of the uploaded file; answer1 and answer2 are
\* what the backend does with the two images
compare_photos_run(inst, image1, image2, distance_metric, answer1, answer2) ==
    LET fetch1 == fetch_image_from_url(image1)
        fetched == fetch1.ret
        img1 == preprocess_image(fetched.val)
        model == get_model(inst)
        embed1 == get_embedding(model.val, answer1, TRUE)
        got1 == embed1.ret
        decode2 == decode_base64_image(b64encode(image2))
        decoded == decode2.ret
        img2 == preprocess_image(decoded.val)
        embed2 == get_embedding(model.val, answer2, TRUE)
        got2 == embed2.ret
        distance == calculate_distance(got1.val.embedding, got2.val.embedding,
                                       Lower(distance_metric))
        similarity == distance_to_similarity(distance.val, Lower(distance_metric))
        is_match == compare_photos_is_match(distance.val, distance_metric)
        t_fetch1 == St(1, "fetch_image_from_url") \o Tag(1, fetch1.trace)
        t_img1 == t_fetch1 \o St(1, "preprocess_image")
        t_model == t_img1 \o St(0, "get_model")
        t_got1 == t_model \o St(1, "get_embedding") \o Tag(1, embed1.trace)
        t_decoded == t_got1 \o St(2, "read") \o St(2, "decode_base64_image")
                            \o Tag(2, decode2.trace)
        t_img2 == t_decoded \o St(2, "preprocess_image")
        t_got2 == t_img2 \o St(2, "get_embedding") \o Tag(2, embed2.trace)
        t_distance == t_got2 \o St(0, "calculate_distance")
        t_similarity == t_distance \o St(0, "distance_to_similarity")
    IN  IF image1.scheme \in {"", " "} THEN Traced(HTTPException(400), <<>>)
        ELSE IF image1.scheme \notin {"http", "https"} THEN Traced(HTTPException(400), <<>>)
        ELSE IF Lower(distance_metric) \notin {"cosine", "euclidean"}
             THEN Traced(HTTPException(400), <<>>)
        ELSE IF ~fetched.ok THEN Traced(fetched, t_fetch1)
        ELSE IF ~img1.ok THEN Traced(img1, t_img1)
        ELSE IF ~model.ok THEN Traced(model, t_model)
        ELSE IF ~got1.ok THEN Traced(got1, t_got1)
        ELSE IF ~format_4f(got1.val.detection_score).ok THEN Traced(Raise("TypeError"), t_got1)
        ELSE IF ~decoded.ok THEN Traced(decoded, t_decoded)
        ELSE IF ~img2.ok THEN Traced(img2, t_img2)
        ELSE IF ~got2.ok THEN Traced(got2, t_got2)
        ELSE IF ~format_4f(got2.val.detection_score).ok THEN Traced(Raise("TypeError"), t_got2)
        ELSE IF ~distance.ok THEN Traced(distance, t_distance)
        ELSE IF ~similarity.ok THEN Traced(similarity, t_similarity)
        ELSE Traced(ComparePhotosResponse(is_match, similarity.val, distance.val,
                                          Lower(distance_metric),
                                          got1.val.detection_score, got2.val.detection_score),
                    t_similarity)

\* the response of compare_photos
compare_photos(inst, image1, image2, distance_metric, answer1, answer2) ==
    respond(compare_photos_run(inst, image1, image2, distance_metric, answer1, answer2).ret)

\* compare_photos_upload, up to the value returned or the exception raised,
\* with the stages run: image1 and image2 are the bytes of the two files
compare_photos_upload_run(inst, image1, image2, distance_metric, answer1, answer2) ==
    LET request == ComparePhotosUploadRequest(b64encode(image1), b64encode(image2),
                                              Lower(distance_metric))
        decode1 == decode_base64_image(request.image1)
        decoded1 == decode1.ret
        img1 == preprocess_image(decoded1.val)
        model == get_model(inst)
        embed1 == get_embedding(model.val, answer1, TRUE)
        got1 == embed1.ret
        decode2 == decode_base64_image(request.image2)
        decoded2 == decode2.ret
        img2 == preprocess_image(decoded2.val)
        embed2 == get_embedding(model.val, answer2, TRUE)
        got2 == embed2.ret
        distance == calculate_distance(got1.val.embedding, got2.val.embedding,
                                       request.distance_metric)
        similarity == distance_to_similarity(distance.val, request.distance_metric)
        is_match == compare_photos_upload_is_match(distance.val, request)
        t_decoded1 == St(1, "read") \o St(2, "read") \o St(1, "decode_base64_image")
                          \o Tag(1, decode1.trace)
        t_img1 == t_decoded1 \o St(1, "preprocess_image")
        t_model == t_img1 \o St(0, "get_model")
        t_got1 == t_model \o St(1, "get_embedding") \o Tag(1, embed1.trace)
        t_decoded2 == t_got1 \o St(2, "decode_base64_image") \o Tag(2, decode2.trace)
        t_img2 == t_decoded2 \o St(2, "preprocess_image")
        t_got2 == t_img2 \o St(2, "get_embedding") \o Tag(2, embed2.trace)
        t_distance == t_got2 \o St(0, "calculate_distance")
        t_similarity == t_distance \o St(0, "distance_to_similarity")
    IN  IF Lower(distance_metric) \notin {"cosine", "euclidean"}
        THEN Traced(HTTPException(400), <<>>)
        ELSE IF ~decoded1.ok THEN Traced(decoded1, t_decoded1)
        ELSE IF ~img1.ok THEN Traced(img1, t_img1)
        ELSE IF ~model.ok THEN Traced(model, t_model)
        ELSE IF ~got1.ok THEN Traced(got1, t_got1)
        ELSE IF ~format_4f(got1.val.detection_score).ok THEN Traced(Raise("TypeError"), t_got1)
        ELSE IF ~decoded2.ok THEN Traced(decoded2, t_decoded2)
        ELSE IF ~img2.ok THEN Traced(img2, t_img2)
        ELSE IF ~got2.ok THEN Traced(got2, t_got2)
        ELSE IF ~format_4f(got2.val.detection_score).ok THEN Traced(Raise("TypeError"), t_got2)
        ELSE IF ~distance.ok THEN Traced(distance, t_distance)
        ELSE IF ~similarity.ok THEN Traced(similarity, t_similarity)
        ELSE Traced(ComparePhotosResponse(is_match, similarity.val, distance.val,
                                          request.distance_metric,
                                          got1.val.detection_score, got2.val.detection_score),
                    t_similarity)

\* the response of compare_photos_upload
compare_photos_upload(inst, image1, image2, distance_metric, answer1, answer2) ==
    respond(compare_photos_upload_run(inst, image1, image2, distance_metric,
                                      answer1, answer2).ret)

\* a request the framework refuses before the handler runs
RequestValidationError == [ok |-> FALSE, exc |-> "RequestValidationError"]

\* a parameter the request leaves out
Absent == "(absent)"

\* the value of a parameter that has a default
WithDefault(sent, default) == IF sent = Absent THEN default ELSE sent

\* EmbedRequest: image is a non-blank string, kept stripped
EmbedRequest(image) ==
    IF image.b64 = "empty" THEN RequestValidationError
    ELSE Ok([image |-> image])

\* EmbedResponse(...): pydantic validates the fields
EmbedResponse(embedding, face_detected, detection_score) ==
    IF /\ Len(embedding) = embedding_size
       /\ detection_score = PyNone \/ InUnitInterval(detection_score)
    THEN Ok([embedding |-> embedding, face_detected |-> face_detected,
             detection_score |-> detection_score])
    ELSE Raise("ValidationError")

\* extract_embedding, up to the value returned or the exception raised, with
\* the stages run: answer is what the backend does with the image
extract_embedding_run(inst, request, answer) ==
    LET decode == decode_base64_image(request.image)
        decoded == decode.ret
        image == preprocess_image(decoded.val)
        model == get_model(inst)
        embed == get_embedding(model.val, answer, TRUE)
        got == embed.ret
        t_decoded == St(1, "decode_base64_image") \o Tag(1, decode.trace)
        t_image == t_decoded \o St(1, "preprocess_image")
        t_model == t_image \o St(0, "get_model")
        t_got == t_model \o St(1, "get_embedding") \o Tag(1, embed.trace)
    IN  IF ~decoded.ok THEN Traced(decoded, t_decoded)
        ELSE IF ~image.ok THEN Traced(image, t_image)
        ELSE IF ~model.ok THEN Traced(model, t_model)
        ELSE IF ~got.ok THEN Traced(got, t_got)
        ELSE Traced(EmbedResponse(got.val.embedding, TRUE, got.val.detection_score), t_got)

\* the response of extract_embedding
extract_embedding(inst, request, answer) ==
    respond(extract_embedding_run(inst, request, answer).ret)

\* POST /embed: the body is validated, then the handler runs
post_embed(inst, image, answer) ==
    LET request == EmbedRequest(image)
    IN  IF ~request.ok THEN Response(422, [error_code |-> "None"])
        ELSE extract_embedding(inst, request.val, answer)

\* the stages POST /embed runs
post_embed_stages(inst, image, answer) ==
    LET request == EmbedRequest(image)
    IN  IF ~request.ok THEN <<>>
        ELSE extract_embedding_run(inst, request.val, answer).trace

\* mutant of CompareRequest: an empty reference list is let through
CompareRequest_empty_allowed(query_embedding, reference_embeddings, sent_metric) ==
    LET distance_metric == WithDefault(sent_metric, "cosine")
    IN  IF \/ Len(query_embedding) # embedding_size
           \/ \E i \in 1..Len(reference_embeddings) :
                 Len(reference_embeddings[i].embedding) # embedding_size
           \/ Lower(distance_metric) \notin {"cosine", "euclidean"}
        THEN RequestValidationError
        ELSE Ok([query_embedding |-> query_embedding,
                 reference_embeddings |-> reference_embeddings,
                 distance_metric |-> Lower(distance_metric)])

\* mutant of CompareRequest: the metric is kept as sent
CompareRequest_metric_as_sent(query_embedding, reference_embeddings, sent_metric) ==
    LET distance_metric == WithDefault(sent_metric, "cosine")
    IN  IF \/ Len(query_embedding) # embedding_size
           \/ Len(reference_embeddings) < 1
           \/ \E i \in 1..Len(reference_embeddings) :
                 Len(reference_embeddings[i].embedding) # embedding_size
           \/ Lower(distance_metric) \notin {"cosine", "euclidean"}
        THEN RequestValidationError
        ELSE Ok([query_embedding |-> query_embedding,
                 reference_embeddings |-> reference_embeddings,
                 distance_metric |-> distance_metric])

\* CompareRequest: the query and every reference embedding have
\* embedding_size components, there is at least one reference, and the
\* metric, cosine when absent, is one of the two in any case; it is kept in
\* lower case
CompareRequest(query_embedding, reference_embeddings, sent_metric) ==
    LET distance_metric == WithDefault(sent_metric, "cosine")
    IN  IF \/ Len(query_embedding) # embedding_size
           \/ Len(reference_embeddings) < 1
           \/ \E i \in 1..Len(reference_embeddings) :
                 Len(reference_embeddings[i].embedding) # embedding_size
           \/ Lower(distance_metric) \notin {"cosine", "euclidean"}
        THEN RequestValidationError
        ELSE Ok([query_embedding |-> query_embedding,
                 reference_embeddings |-> reference_embeddings,
                 distance_metric |-> Lower(distance_metric)])

\* compare_embeddings: a ValueError becomes a 400, any other exception a 500
compare_embeddings(request) ==
    CHOOSE response \in
        { IF found.ok
          THEN Response(200, [matches |-> found.val.matches,
                              best_match |-> found.val.best_match,
                              distance_metric |-> request.distance_metric])
          ELSE IF found.exc = "ValueError" THEN Response(400, [error_code |-> "None"])
          ELSE Response(500, [error_code |-> "None"]) :
          found \in {find_best_match(request.query_embedding, request.reference_embeddings,
                                     request.distance_metric)} } : TRUE

\* POST /compare: the body is validated, then the handler runs; ranked tells
\* whether find_best_match was called
post_compare(query_embedding, reference_embeddings, sent_metric) ==
    CHOOSE done \in
        { IF ~request.ok
          THEN [response |-> Response(422, [error_code |-> "None"]), ranked |-> FALSE]
          ELSE [response |-> compare_embeddings(request.val), ranked |-> TRUE] :
          request \in {CompareRequest(query_embedding, reference_embeddings, sent_metric)} } :
        TRUE

---------------------------------------------------------------------------
(* auth.py and the endpoints that read the model only *)

\* settings.api_token, the token the service is configured with
api_token == "configured-token"

\* what HTTPBearer(auto_error=False) hands over when the request carries no
\* bearer token
NoCredentials == "(no credentials)"

\* mutant of verify_token: any token that is present is accepted
verify_token_any_token(credentials) ==
    IF credentials = NoCredentials THEN HTTPException(401)
    ELSE Ok("None")

\* verify_token: 401 when the token is missing or is not the configured one
verify_token(credentials) ==
    IF credentials = NoCredentials THEN HTTPException(401)
    ELSE IF credentials # api_token THEN HTTPException(401)
    ELSE Ok("None")

\* the call of a request that dependencies=[Depends(verify_token)] refuses:
\* the handler is not called
Refused(endpoint, credentials) ==
    [op |-> "refused", endpoint |-> endpoint, credentials |-> credentials,
     response |-> Response(verify_token(credentials).status_code, [error_code |-> "None"]),
     stages |-> <<>>]

\* the call of a request to a protected endpoint: served is the call of the
\* handler
Protected(endpoint, credentials, served) ==
    IF verify_token(credentials).ok THEN served ELSE Refused(endpoint, credentials)

\* health_check: get_model() raises when there is no instance
health_check(inst) ==
    LET model == get_model(inst)
    IN  IF ~model.ok THEN respond(model)
        ELSE Response(200, [status |-> IF is_loaded(model.val) THEN "healthy" ELSE "unhealthy",
                            model_loaded |-> is_loaded(model.val)])

\* model_info
model_info(inst) ==
    LET model == get_model(inst)
    IN  IF ~model.ok THEN respond(model)
        ELSE Response(200, [embedding_size |-> embedding_size, backend |-> "insightface"])

---------------------------------------------------------------------------
(* Spec: the service, from construction to shutdown *)

\* what FaceRecognitionModel.load can do
LoadOutcomes == {"ok", "constructor_raises", "prepare_raises"}

\* a 32-bit embedding whose first two components are a and b
Vec(a, b) == np_array_float32(List2(a, b))

Det(state, v) == [state |-> state, v |-> v]

\* det_score as the backend may leave it: 0.9, 1.2 (outside the range of a
\* confidence), None, or no attribute at all
DetScores ==
    {Det("value", Fin((9 * Scale) \div 10)), Det("value", Fin((12 * Scale) \div 10)),
     Det("None", Fin(0)), Det("absent", Fin(0))}

\* embeddings of the right length: (1, 0), (1, 1), (3, 4), and (nan, 0), (inf, 0)
GoodEmbeddings ==
    {Embedding(Vec(F64(Scale, 0), F64(0, 0))), Embedding(Vec(F64(Scale, 0), F64(Scale, 0))),
     Embedding(Vec(F64(3 * Scale, 0), F64(4 * Scale, 0)))}

ContaminatedEmbeddings ==
    {Embedding(Vec(F64NaN, F64(0, 0))), Embedding(Vec(F64Inf, F64(Scale, 0)))}

\* no embedding, and embeddings one component short or long
MissizedEmbeddings ==
    {NoEmbedding,
     Embedding([i \in 1..(embedding_size - 1) |-> Real(1)]),
     Embedding([i \in 1..(embedding_size + 1) |-> Real(1)])}

Faces ==
    {Face(e, d) : e \in GoodEmbeddings \cup ContaminatedEmbeddings \cup MissizedEmbeddings,
                  d \in DetScores}

TheFace == Face(Embedding(Vec(F64(Scale, 0), F64(0, 0))), Det("value", Fin((9 * Scale) \div 10)))

BackendAnswer(raises, faces) == [raises |-> raises, faces |-> faces]

\* what model.get does in an adapter call: it raises, or it returns up to
\* MaxFaces faces
BackendAnswers ==
    {BackendAnswer(TRUE, <<>>), BackendAnswer(FALSE, <<>>)}
        \cup {BackendAnswer(FALSE, <<f>>) : f \in Faces}
        \cup {BackendAnswer(FALSE, [i \in 1..n |-> IF i = 1 THEN f ELSE TheFace]) :
                n \in 2..MaxFaces, f \in Faces}

\* faces reported to a request: the well-formed embeddings with a score of
\* 0.9, one face per other score, one face per malformed embedding
RequestFaces ==
    {Face(e, Det("value", Fin((9 * Scale) \div 10))) :
        e \in GoodEmbeddings \cup ContaminatedEmbeddings \cup MissizedEmbeddings}
        \cup {Face(TheFace.embedding, d) : d \in DetScores}

RequestAnswers ==
    {BackendAnswer(TRUE, <<>>), BackendAnswer(FALSE, <<>>)}
        \cup {BackendAnswer(FALSE, <<f>>) : f \in RequestFaces}
        \cup {BackendAnswer(FALSE, [i \in 1..n |-> TheFace]) : n \in 2..MaxFaces}

\* files uploaded: a JPEG, a GIF, a JPEG over the size limit, a 20 x 20 PNG,
\* bytes that are not an image
UploadedFiles ==
    {Payload(1000, "image", "JPEG", "RGB", 100, 100),
     Payload(1000, "image", "GIF", "P", 100, 100),
     Payload(max_image_size + 1, "image", "JPEG", "RGB", 100, 100),
     Payload(1000, "image", "PNG", "L", 20, 20),
     Payload(1000, "garbage", "None", "None", 0, 0)}

\* image1 of compare_photos: empty, blank, not http(s), and http(s) URLs with
\* what the network and the remote file do
RequestUrls ==
    {[scheme |-> c, net |-> "ok", payload |-> Payload(1000, "image", "JPEG", "RGB", 100, 100)] :
        c \in {"", " ", "ftp", "http"}}
        \cup {[scheme |-> "https", net |-> n, payload |-> b] :
                n \in {"ok", "timeout", "http_error"}, b \in UploadedFiles}

RequestMetrics == {"cosine", "euclidean", "COSINE", "Euclidean", "manhattan"}

\* the metric parameter as sent, or left out
SentMetrics == RequestMetrics \cup {Absent}

\* the image of an embed request: base64 text, with or without a data URI
\* prefix, or an empty string
RequestImages ==
    [data_uri : BOOLEAN, b64 : {"valid", "stray_characters", "bad_padding"},
     payload : UploadedFiles]
        \cup {[data_uri |-> FALSE, b64 |-> "empty",
               payload |-> Payload(0, "garbage", "None", "None", 0, 0)]}

\* embeddings sent to compare: (1, 0), (1, 1), (3, 4), one a component short,
\* and (nan, 0), (inf, 1), which json.loads reads from NaN and Infinity
SentEmbeddings ==
    {List2(F64(Scale, 0), F64(0, 0)), List2(F64(Scale, 0), F64(Scale, 0)),
     List2(F64(3 * Scale, 0), F64(4 * Scale, 0)),
     [i \in 1..(embedding_size - 1) |-> F64(Scale, 0)],
     List2(F64NaN, F64(0, 0)), List2(F64Inf, F64(Scale, 0))}

\* the bearer token of a request: none, the configured one, another one
Credentials == {NoCredentials, api_token, "another-token"}

\* reference lists sent to compare, the empty one among them
SentReferences ==
    { [i \in 1..Len(es) |-> [id |-> i, embedding |-> es[i]]] :
        es \in SeqsUpTo(SentEmbeddings, MaxRefs) }

\* lifespan, up to the yield
Startup ==
    /\ phase = "created"
    /\ \E outcome \in LoadOutcomes :
          LET r == initialize_model(outcome)
          IN  /\ instance' = r.instance
              /\ phase' = IF r.ret.ok THEN "serving" ELSE "aborted"
    /\ UNCHANGED call

\* lifespan, after the yield
Shutdown ==
    /\ phase = "serving"
    /\ instance' = cleanup_model(instance)
    /\ phase' = "stopped"
    /\ UNCHANGED call

\* a caller of the adapter: get_model() followed by get_embedding
CallGetEmbedding ==
    /\ call = NoCall
    /\ \E answer \in BackendAnswers, return_detection_info \in BOOLEAN :
          LET model == get_model(instance)
          IN  call' = [op |-> "get_embedding", self |-> instance, answer |-> answer,
                       return_detection_info |-> return_detection_info,
                       out |-> IF model.ok
                               THEN get_embedding(model.val, answer, return_detection_info)
                               ELSE Traced(model, <<>>)]
    /\ UNCHANGED <<phase, instance>>

\* a caller of the adapter: get_model() followed by detect_faces
CallDetectFaces ==
    /\ call = NoCall
    /\ \E answer \in BackendAnswers :
          LET model == get_model(instance)
          IN  call' = [op |-> "detect_faces", self |-> instance, answer |-> answer,
                       out |-> IF model.ok THEN detect_faces(model.val, answer)
                               ELSE Traced(model, <<>>)]
    /\ UNCHANGED <<phase, instance>>

\* POST /compare-photos, served between startup and shutdown
ComparePhotos ==
    /\ call = NoCall
    /\ phase = "serving"
    /\ \E credentials \in Credentials, image1 \in RequestUrls, image2 \in UploadedFiles,
          sent \in SentMetrics, answer1 \in RequestAnswers, answer2 \in RequestAnswers :
          LET distance_metric == WithDefault(sent, "cosine")
          IN
          call' = Protected("compare_photos", credentials,
                  [op |-> "compare_photos", credentials |-> credentials,
                   image1 |-> image1, image2 |-> image2,
                   sent |-> sent, distance_metric |-> distance_metric,
                   answer1 |-> answer1, answer2 |-> answer2,
                   stages |-> compare_photos_run(instance, image1, image2, distance_metric,
                                                 answer1, answer2).trace,
                   response |-> compare_photos(instance, image1, image2, distance_metric,
                                               answer1, answer2)])
    /\ UNCHANGED <<phase, instance>>

\* POST /compare-photos-upload, served between startup and shutdown
ComparePhotosUpload ==
    /\ call = NoCall
    /\ phase = "serving"
    /\ \E credentials \in Credentials, image1 \in UploadedFiles, image2 \in UploadedFiles,
          sent \in SentMetrics, answer1 \in RequestAnswers, answer2 \in RequestAnswers :
          LET distance_metric == WithDefault(sent, "cosine")
          IN
          call' = Protected("compare_photos_upload", credentials,
                  [op |-> "compare_photos_upload", credentials |-> credentials,
                   image1 |-> image1, image2 |-> image2,
                   sent |-> sent, distance_metric |-> distance_metric,
                   answer1 |-> answer1, answer2 |-> answer2,
                   stages |-> compare_photos_upload_run(instance, image1, image2,
                                                        distance_metric, answer1,
                                                        answer2).trace,
                   response |-> compare_photos_upload(instance, image1, image2,
                                                      distance_metric, answer1, answer2)])
    /\ UNCHANGED <<phase, instance>>

\* mutant of ExtractEmbedding: a request that fails drops the model instance
ExtractEmbedding_drops_instance ==
    /\ call = NoCall
    /\ phase = "serving"
    /\ \E credentials \in Credentials, image \in RequestImages, answer \in RequestAnswers :
          /\ call' = Protected("extract_embedding", credentials,
                      [op |-> "extract_embedding", credentials |-> credentials,
                       image |-> image, answer |-> answer,
                       stages |-> post_embed_stages(instance, image, answer),
                       response |-> post_embed(instance, image, answer)])
          /\ instance' = IF call'.response.status_code = 200 THEN instance ELSE NoInstance
    /\ UNCHANGED phase

\* POST /embed, served between startup and shutdown
ExtractEmbedding ==
    /\ call = NoCall
    /\ phase = "serving"
    /\ \E credentials \in Credentials, image \in RequestImages, answer \in RequestAnswers :
          call' = Protected("extract_embedding", credentials,
                  [op |-> "extract_embedding", credentials |-> credentials,
                   image |-> image, answer |-> answer,
                   stages |-> post_embed_stages(instance, image, answer),
                   response |-> post_embed(instance, image, answer)])
    /\ UNCHANGED <<phase, instance>>

\* POST /compare, served between startup and shutdown
CompareEmbeddings ==
    /\ call = NoCall
    /\ phase = "serving"
    /\ \E credentials \in Credentials, query_embedding \in SentEmbeddings,
          reference_embeddings \in SentReferences, sent \in SentMetrics :
          \E done \in {IF verify_token(credentials).ok
                        THEN post_compare(query_embedding, reference_embeddings, sent)
                        ELSE [response |-> Response(401, [error_code |-> "None"]),
                              ranked |-> FALSE]} :
          call' = Protected("compare_embeddings", credentials,
                  [op |-> "compare_embeddings", credentials |-> credentials,
                   query_embedding |-> query_embedding,
                   reference_embeddings |-> reference_embeddings, sent |-> sent,
                   stages |-> IF done.ranked THEN St(0, "find_best_match") ELSE <<>>,
                   ranked |-> done.ranked, response |-> done.response])
    /\ UNCHANGED <<phase, instance>>

\* GET /health, served between startup and shutdown; no token is asked for
HealthCheck ==
    /\ call = NoCall
    /\ phase = "serving"
    /\ call' = [op |-> "health_check", response |-> health_check(instance)]
    /\ UNCHANGED <<phase, instance>>

\* GET /model-info, served between startup and shutdown
ModelInfo ==
    /\ call = NoCall
    /\ phase = "serving"
    /\ \E credentials \in Credentials :
          call' = Protected("model_info", credentials,
                  [op |-> "model_info", credentials |-> credentials, stages |-> <<>>,
                   response |-> model_info(instance)])
    /\ UNCHANGED <<phase, instance>>

\* the call returns: nothing of it is kept
Return ==
    /\ call # NoCall
    /\ call' = NoCall
    /\ UNCHANGED <<phase, instance>>

Next ==
    \/ Startup
    \/ Shutdown
    \/ CallGetEmbedding
    \/ CallDetectFaces
    \/ ComparePhotos
    \/ ComparePhotosUpload
    \/ ExtractEmbedding
    \/ CompareEmbeddings
    \/ HealthCheck
    \/ ModelInfo
    \/ Return

Spec == Idle /\ [][Next]_vars

---------------------------------------------------------------------------
(* Claims about the adapter and the pairwise endpoints, under Spec *)

\* the call reached a backend that answered with a list of faces
BackendAnswered ==
    /\ call.op = "get_embedding"
    /\ call.self.exists /\ is_loaded(call.self)
    /\ ~call.answer.raises

\* C1: for a loaded model and every list of faces the backend returns: no
\* face fails with NO_FACE_DETECTED, k > 1 faces fail with
\* MULTIPLE_FACES_DETECTED and a message that carries k, and a call that
\* returns had exactly one face, whose embedding it returns together with
\* that face's detection score (or None)
C1_SingleFacePolicy ==
    BackendAnswered =>
        LET faces == call.answer.faces
            ret == call.out.ret
        IN  /\ (Len(faces) = 0 => ret = Fail("NO_FACE_DETECTED"))
            /\ (Len(faces) > 1 => ret = FailCount("MULTIPLE_FACES_DETECTED", Len(faces)))
            /\ (ret.ok =>
                  /\ Len(faces) = 1
                  /\ ret.val.embedding = faces[1].embedding.vec
                  /\ ret.val.detection_score \in {PyNone, faces[1].det.v}
                  /\ (call.return_detection_info /\ faces[1].det.state = "value"
                        => ret.val.detection_score = faces[1].det.v))

\* C1 witness: a prepared model whose backend reports two faces refuses with
\* MULTIPLE_FACES_DETECTED and the count 2
C1_TwoFacesRefused ==
    /\ BackendAnswered
    /\ call.self.model = "prepared"
    /\ Len(call.answer.faces) = 2
    /\ call.out.ret = FailCount("MULTIPLE_FACES_DETECTED", 2)

InitializationCompleted(inst) == inst.exists /\ inst.model = "prepared"

InferenceInvoked == \E i \in 1..Len(call.out.trace) : call.out.trace[i] = "model.get"

\* C2: an adapter call made while the backend has not completed its
\* initialization fails with MODEL_NOT_LOADED and does not invoke model.get
C2_NotInitializedFailsFast ==
    call.op \in {"get_embedding", "detect_faces"} /\ ~InitializationCompleted(call.self) =>
        /\ call.out.ret = Fail("MODEL_NOT_LOADED")
        /\ ~InferenceInvoked

WellFormed(embedding) ==
    /\ embedding.present
    /\ Len(embedding.vec) = embedding_size
    /\ \A i \in 1..Len(embedding.vec) : IsFin(embedding.vec[i])

\* C9: when the backend returns exactly one face, get_embedding returns only
\* an embedding that is present, of embedding_size components and free of
\* NaN and Inf, and fails with INVALID_EMBEDDING for any other
C9_MalformedEmbeddingRefused ==
    BackendAnswered /\ Len(call.answer.faces) = 1 =>
        /\ (call.out.ret.ok => WellFormed(call.answer.faces[1].embedding))
        /\ (~WellFormed(call.answer.faces[1].embedding)
              => call.out.ret = Fail("INVALID_EMBEDDING"))

\* a pairwise endpoint answered 200
Compared ==
    /\ call.op \in {"compare_photos", "compare_photos_upload"}
    /\ call.response.status_code = 200

\* C6: in every 200 response of either pairwise endpoint the metric is the
\* requested one in lower case and match is true exactly when the distance
\* is below 0.4 (cosine) or below 1.0 (euclidean), so the verdict depends on
\* the distance and the metric only and is the same in both endpoints
C6_VerdictByThreshold ==
    Compared =>
        LET body == call.response.body
            d == body.distance
        IN  /\ body.distance_metric = Lower(call.distance_metric)
            /\ body.distance_metric \in {"cosine", "euclidean"}
            /\ (body.distance_metric = "cosine" =>
                  (body.match <=> IsFin(d) /\ 10 * d.v < 4 * Scale))
            /\ (body.distance_metric = "euclidean" =>
                  (body.match <=> IsFin(d) /\ d.v < Scale))

\* C6 witness: compare_photos_upload answers a euclidean distance of exactly
\* 1.0 with match = false
C6_AtThresholdNoMatch ==
    /\ call.op = "compare_photos_upload"
    /\ call.response.status_code = 200
    /\ call.response.body.distance_metric = "euclidean"
    /\ call.response.body.distance = Real(1)
    /\ ~call.response.body.match

---------------------------------------------------------------------------
(* Further claims about the image functions, under SpecImage *)

\* a non-empty 2-D or 3-D array with both sides in [32, 8192] and, if 3-D,
\* 1, 3 or 4 channels
Acceptable(image) ==
    /\ image.kind = "ndarray"
    /\ Len(image.shape) \in {2, 3}
    /\ Product(image.shape) > 0
    /\ image.shape[1] >= 32 /\ image.shape[1] <= 8192
    /\ image.shape[2] >= 32 /\ image.shape[2] <= 8192
    /\ (Len(image.shape) = 3 => image.shape[3] \in {1, 3, 4})

\* C11: validate_image accepts exactly the non-empty 2-D and 3-D arrays with
\* both sides in [32, 8192] and, if 3-D, 1, 3 or 4 channels; it gives a reason
\* with every rejection, and preprocess_image fails with INVALID_IMAGE on
\* every buffer validate_image rejects
C11_ValidatedExactly ==
    /\ (call.op = "validate_image" =>
          /\ (call.ret.valid <=> Acceptable(call.image))
          /\ (~call.ret.valid => call.ret.msg \notin {"None", ""}))
    /\ (call.op = "preprocess_image" /\ ~Acceptable(call.image) =>
          call.ret = Fail("INVALID_IMAGE"))

\* C11 witness: a 20 x 20 buffer fails preprocess_image with INVALID_IMAGE
C11_TwentyByTwentyRefused ==
    /\ call.op = "preprocess_image"
    /\ call.image.kind = "ndarray" /\ call.image.shape = <<20, 20>>
    /\ call.ret = Fail("INVALID_IMAGE")


\* the bytes are an image of a format PIL recognizes
Recognized(payload) == payload.parse \in {"image", "truncated"}

\* C12: on both ingestion paths, bytes of a recognized format outside the
\* allow-list fail with UNSUPPORTED_FORMAT and bytes that cannot be parsed
\* with INVALID_IMAGE, a base64 text that is not well-formed (and not over
\* the size limit) fails with INVALID_IMAGE, and what load_image_from_bytes
\* answers is what the wrapper answers
C12_DecodeFailureKinds ==
    call.op \in {"decode_base64_image", "fetch_image_from_url"} =>
        /\ (call.op = "decode_base64_image" /\ call.input.b64 # "valid"
                /\ call.input.payload.nbytes <= max_image_size
              => call.out.ret = Fail("INVALID_IMAGE"))
        /\ (PixelDecoded =>
              /\ call.out.ret = load_image_from_bytes(call.input.payload)
              /\ (Recognized(call.input.payload)
                    /\ Lower(call.input.payload.format) \notin allowed_image_formats
                    => call.out.ret = Fail("UNSUPPORTED_FORMAT"))
              /\ (~Recognized(call.input.payload) => call.out.ret = Fail("INVALID_IMAGE")))


\* the kind of failure of a fetch that succeeds with a body that is no image
InvalidBodyKind ==
    load_image_from_bytes(Payload(1000, "garbage", "None", "None", 0, 0)).error_code

\* C13: fetch_image_from_url makes no request unless the scheme is http or
\* https, and a fetch that fails (timeout, non-2xx response, transport
\* failure) fails with another kind than a fetch whose body is no image
C13_FetchFailureDistinct ==
    call.op = "fetch_image_from_url" =>
        /\ (call.input.scheme \notin {"http", "https"} => call.out.trace = <<>>)
        /\ (call.input.scheme \in {"http", "https"} /\ call.input.net # "ok" =>
              /\ ~call.out.ret.ok
              /\ call.out.ret.error_code # InvalidBodyKind)

---------------------------------------------------------------------------
(* Further claims about the endpoints, under Spec *)

UnknownMetric(metric) == Lower(metric) \notin {"cosine", "euclidean"}

\* the compare request has a query or a reference of the wrong size, or an
\* unknown metric
MisshapenCompare ==
    /\ call.op = "compare_embeddings"
    /\ \/ Len(call.query_embedding) # embedding_size
       \/ \E i \in 1..Len(call.reference_embeddings) :
             Len(call.reference_embeddings[i].embedding) # embedding_size
       \/ UnknownMetric(WithDefault(call.sent, "cosine"))

\* the pairwise request has an empty or non-http(s) URL, or an unknown metric
MisshapenPairwise ==
    \/ /\ call.op = "compare_photos"
       /\ \/ call.image1.scheme \notin {"http", "https"}
          \/ UnknownMetric(call.distance_metric)
    \/ /\ call.op = "compare_photos_upload"
       /\ UnknownMetric(call.distance_metric)

\* C14: a request with an input-shape violation is answered 422 by compare,
\* without ranking, and 400 by compare_photos and compare_photos_upload, in
\* both cases without a domain error code
C14_MalformedRequestRefused ==
    /\ (MisshapenCompare =>
          /\ call.response = Response(422, [error_code |-> "None"])
          /\ ~call.ranked)
    /\ (MisshapenPairwise => call.response = Response(400, [error_code |-> "None"]))


\* the instance the handlers see between startup and shutdown
Serving == initialize_model("ok").instance

\* the metric a selector spells, whatever the case of its letters; cosine
\* when the selector is absent
Spelled(sent) ==
    CASE sent \in {Absent, "cosine", "COSINE"} -> "cosine"
      [] sent \in {"euclidean", "Euclidean"} -> "euclidean"
      [] OTHER -> "unknown"

MetricCall == call.op \in {"compare_embeddings", "compare_photos", "compare_photos_upload"}

\* the response to the request of the call with another metric selector
ResponseFor(metric) ==
    CASE call.op = "compare_embeddings" ->
            post_compare(call.query_embedding, call.reference_embeddings, metric).response
      [] call.op = "compare_photos" ->
            compare_photos(Serving, call.image1, call.image2, metric,
                           call.answer1, call.answer2)
      [] OTHER ->
            compare_photos_upload(Serving, call.image1, call.image2, metric,
                                  call.answer1, call.answer2)

\* C15: on compare, compare_photos and compare_photos_upload a selector that
\* spells cosine or euclidean in any case, or is absent (cosine), gets the
\* response its lower-case spelling gets, and the distance_metric of a 200
\* response is that lower-case spelling; any other selector gets no 200
C15_MetricCaseInsensitive ==
    MetricCall =>
        /\ (Spelled(call.sent) # "unknown" =>
              /\ call.response = ResponseFor(Spelled(call.sent))
              /\ (call.response.status_code = 200 =>
                    call.response.body.distance_metric = Spelled(call.sent)))
        /\ (Spelled(call.sent) = "unknown" => call.response.status_code # 200)

\* C15 witness: compare answers 200 with distance_metric "euclidean" to the
\* selector "Euclidean"
C15_MixedCaseServed ==
    /\ call.op = "compare_embeddings"
    /\ call.sent = "Euclidean"
    /\ call.response.status_code = 200
    /\ call.response.body.distance_metric = "euclidean"


\* C16: compare answers an empty reference list with 422 and does not call
\* find_best_match, which it therefore never runs on an empty list;
\* find_best_match itself fails on an empty list under both metrics
C16_EmptyReferencesRefused ==
    call.op = "compare_embeddings" =>
        /\ (call.reference_embeddings = <<>> =>
              /\ call.response = Response(422, [error_code |-> "None"])
              /\ ~call.ranked)
        /\ (call.ranked => call.reference_embeddings # <<>>)
        /\ \A metric \in Metrics : ~find_best_match(call.query_embedding, <<>>, metric).ok

\* C16 witness: a query of the right size, the metric cosine and no reference
\* are answered 422
C16_NoReferenceRefused ==
    /\ call.op = "compare_embeddings"
    /\ Len(call.query_embedding) = embedding_size
    /\ call.sent = "cosine"
    /\ call.reference_embeddings = <<>>
    /\ call.response.status_code = 422
    /\ ~call.ranked


\* the stages one image goes through, up to the first that fails: ingestion,
\* preprocess_image, get_model, get_embedding
EmbedOne(ingested, answer) ==
    IF ~ingested.ok THEN ingested
    ELSE LET image == preprocess_image(ingested.val)
             model == get_model(Serving)
         IN  IF ~image.ok THEN image
             ELSE IF ~model.ok THEN model
             ELSE get_embedding(model.val, answer, TRUE).ret

\* the call is a request with an image that passed the checks made on its
\* shape
ImageCall ==
    \/ call.op = "extract_embedding" /\ call.image.b64 # "empty"
    \/ call.op \in {"compare_photos", "compare_photos_upload"} /\ ~MisshapenPairwise

FirstImage ==
    CASE call.op = "extract_embedding" ->
            EmbedOne(decode_base64_image(call.image).ret, call.answer)
      [] call.op = "compare_photos" ->
            EmbedOne(fetch_image_from_url(call.image1).ret, call.answer1)
      [] OTHER ->
            EmbedOne(decode_base64_image(b64encode(call.image1)).ret, call.answer1)

SecondImage == EmbedOne(decode_base64_image(b64encode(call.image2)).ret, call.answer2)

DomainErrorResponse(r) == Response(400, [error_code |-> r.error_code])

\* C17: in embed, compare_photos and compare_photos_upload the failure of the
\* first stage that fails is answered with a 400 that carries the error code
\* that stage raised
C17_KindReachesClient ==
    ImageCall =>
        /\ (~FirstImage.ok => call.response = DomainErrorResponse(FirstImage))
        /\ (call.op # "extract_embedding" /\ FirstImage.ok
                /\ FirstImage.val.detection_score # PyNone /\ ~SecondImage.ok
              => call.response = DomainErrorResponse(SecondImage))

\* C17 witness: compare_photos, whose first image yields an embedding and
\* whose second image is a GIF, answers 400 with UNSUPPORTED_FORMAT
C17_UnsupportedFormatAnswered ==
    /\ call.op = "compare_photos" /\ ImageCall
    /\ FirstImage.ok
    /\ call.image2.format = "GIF"
    /\ call.response = Response(400, [error_code |-> "UNSUPPORTED_FORMAT"])


RequestOps ==
    {"extract_embedding", "compare_embeddings", "compare_photos", "compare_photos_upload"}

\* the response carries one of the domain error kinds
DomainFailure(c) ==
    /\ c.op \in RequestOps
    /\ c.response.status_code = 400
    /\ c.response.body.error_code # "None"

\* what a service that has served nothing yet answers to the request of the call
FreshResponse ==
    CASE call.op = "extract_embedding" -> post_embed(Serving, call.image, call.answer)
      [] call.op = "compare_embeddings" ->
            post_compare(call.query_embedding, call.reference_embeddings, call.sent).response
      [] OTHER -> ResponseFor(call.distance_metric)

\* C18: a request that fails with a domain error kind leaves the model
\* instance and the phase of the service as they were, and every request is
\* answered as a service that has served nothing yet would answer it
C18_FailureLeavesModel ==
    /\ [][call = NoCall /\ DomainFailure(call')
            => instance' = instance /\ phase' = phase]_vars
    /\ [](call.op \in RequestOps => call.response = FreshResponse)

\* C18 witness: an embed request was refused with NO_FACE_DETECTED and the
\* model instance is the one startup left
C18_RefusedAndStillServing ==
    /\ call.op = "extract_embedding"
    /\ call.response = Response(400, [error_code |-> "NO_FACE_DETECTED"])
    /\ instance = Serving /\ phase = "serving"


\* C19: a single face without a detection score makes get_embedding return
\* its embedding with None, and embed, compare_photos and
\* compare_photos_upload answer 200 with None for that detection score
C19_MissingScoreServed ==
    /\ (BackendAnswered /\ Len(call.answer.faces) = 1
            /\ call.answer.faces[1].det.state = "absent"
            /\ WellFormed(call.answer.faces[1].embedding)
          => call.out.ret = Ok([embedding |-> call.answer.faces[1].embedding.vec,
                                detection_score |-> PyNone]))
    /\ (call.op = "extract_embedding" /\ ImageCall /\ FirstImage.ok
            /\ FirstImage.val.detection_score = PyNone
          => /\ call.response.status_code = 200
             /\ call.response.body.detection_score = PyNone)
    /\ (call.op \in {"compare_photos", "compare_photos_upload"} /\ ImageCall
            /\ FirstImage.ok /\ SecondImage.ok
            /\ PyNone \in {FirstImage.val.detection_score, SecondImage.val.detection_score}
          => /\ call.response.status_code = 200
             /\ call.response.body.image1_detection_score = FirstImage.val.detection_score
             /\ call.response.body.image2_detection_score = SecondImage.val.detection_score)

---------------------------------------------------------------------------
(* Further claims about the distance engine, under SpecDistance *)

\* every component is a finite number
FiniteVector(v) == \A i \in 1..Len(v) : IsFin(v[i])

\* C20: for every vector v of finite components, the all-zero one included,
\* the cosine distance of v to itself is below 0.001 and its euclidean
\* distance to itself is exactly 0
C20_DistanceToItself ==
    /\ call.op = "calculate_distance"
    /\ call.embedding1 = call.embedding2
    /\ FiniteVector(call.embedding1)
    /\ call.metric \in Metrics
    => /\ call.ret.ok
       /\ (call.metric = "cosine" => BelowEpsilon(call.ret.val) /\ ~FLt(call.ret.val, Fin(0)))
       /\ (call.metric = "euclidean" => call.ret.val = Fin(0))


---------------------------------------------------------------------------
(* Further claims about the distance functions, under SpecDistance *)

\* the similarity of a result that did not raise; nan when it raised
SimilarityOf(ret) == IF ret.ok THEN ret.val ELSE NaN

\* C24: for each metric distance_to_similarity is non-increasing over the
\* whole domain, negative distances included: for d1 <= d2, where it returns
\* for both, the similarity of d1 is at least that of d2; it gives 1 at
\* distance 0 for both metrics and 0 at cosine distance 2
C24_SimilarityNonIncreasing ==
    call.op = "distance_to_similarity_twice" /\ call.ret1.ok /\ call.ret2.ok =>
        /\ (FLe(call.d1, call.d2) => FLe(SimilarityOf(call.ret2), SimilarityOf(call.ret1)))
        /\ (call.d1 = Fin(0) => call.ret1.val = Real(1))
        /\ (call.d1 = Real(2) /\ call.metric = "cosine" => call.ret1.val = Fin(0))

\* the quotient num / den on floats, rounded down
Quotient(num, den) == Fin((num * Scale) \div den)

\* C25: normalize_embedding returns an all-zero vector unchanged and every
\* other vector of finite components divided by its norm, and the cosine
\* distance of two vectors of finite components, all-zero ones included, is
\* in [0, 2]
C25_NormalizeNeverDividesByZero ==
    /\ (call.op = "normalize_embedding" /\ FiniteVector(call.embedding) =>
            LET squares == SumSeq([i \in 1..Len(call.embedding) |->
                                     FMul(call.embedding[i], call.embedding[i])])
            IN  /\ FiniteVector(call.ret)
                /\ (squares = Fin(0) => call.ret = call.embedding)
                /\ (squares # Fin(0) =>
                        \A i \in 1..Len(call.ret) :
                            call.ret[i] = Quotient(call.embedding[i].v, Isqrt(squares.v * Scale))))
    /\ (call.op = "calculate_distance" /\ call.metric = "cosine"
            /\ FiniteVector(call.embedding1) /\ FiniteVector(call.embedding2) =>
            /\ call.ret.ok /\ IsFin(call.ret.val)
            /\ FLe(Fin(0), call.ret.val) /\ FLe(call.ret.val, Real(2)))

\* C25 witness: the cosine distance of the all-zero vector and (1, 0) is 1
C25_ZeroVectorCompared ==
    /\ call.op = "calculate_distance" /\ call.metric = "cosine"
    /\ (\A i \in 1..Len(call.embedding1) : call.embedding1[i] = Fin(0))
    /\ call.embedding2[1] = Real(1)
    /\ call.ret = Ok(Real(1))

\* what the claim says is_valid_embedding checks: a list or an array of
\* expected_size numbers, none of them nan or inf
ValidAsClaimed(embedding, expected_size) ==
    /\ embedding.type \in {"list", "ndarray"}
    /\ Len(embedding.items) = expected_size
    /\ \A i \in 1..Len(embedding.items) : embedding.items[i].k \in {"fin", "huge"}

\* is_valid_embedding is true exactly for a list or an array of the expected
\* size whose items are numbers within the 32-bit range
IsValidEmbeddingExact ==
    call.op = "is_valid_embedding" =>
        (call.ret <=> /\ ValidAsClaimed(call.embedding, call.expected_size)
                      /\ \A i \in 1..Len(call.embedding.items) :
                            call.embedding.items[i].k = "fin")


---------------------------------------------------------------------------
(* Claims about the lifecycle, the tokens and the order of the stages,      *)
(* under Spec                                                               *)

\* the calls of the handlers
HandlerOps == RequestOps \cup {"health_check", "model_info"}

\* the calls of the adapter made outside a request
AdapterOps == {"get_embedding", "detect_faces"}

\* C21: the phase only moves from created to serving or aborted and from
\* serving to stopped; _model_instance is written by startup and by shutdown
\* only; a handler is called only while the service is serving, on the loaded
\* instance startup left; once cleanup_model has run there is no instance and
\* every get_model fails with MODEL_NOT_LOADED, the backend not being called
C21_ModelLifecycle ==
    /\ [][phase' # phase =>
            \/ phase = "created" /\ phase' \in {"serving", "aborted"}
            \/ phase = "serving" /\ phase' = "stopped"]_vars
    /\ [][instance' # instance => phase' # phase]_vars
    /\ [][call = NoCall /\ call'.op \in HandlerOps =>
            /\ phase = "serving" /\ phase' = "serving"
            /\ instance = Serving /\ instance' = Serving]_vars
    /\ [](phase = "serving" => instance = Serving)
    /\ [](phase = "stopped" => instance = NoInstance)
    /\ [][call = NoCall /\ call'.op \in AdapterOps /\ phase = "stopped" =>
            call'.out = Traced(Fail("MODEL_NOT_LOADED"), <<>>)]_vars

\* C21 witness: after shutdown a call of get_model has failed with
\* MODEL_NOT_LOADED
C21_RefusedAfterCleanup ==
    /\ phase = "stopped" /\ instance = NoInstance
    /\ call.op = "get_embedding" /\ call.self = NoInstance
    /\ call.out = Traced(Fail("MODEL_NOT_LOADED"), <<>>)


\* the Python floats of a list that are nan or inf
Contaminated(list) == \E i \in 1..Len(list) : list[i].k \in {"nan", "inf"}

\* an embedding of a compare request has the wrong length
Missized(list) == Len(list) # embedding_size

\* C22: a compare request whose query embedding, or one of whose reference
\* embeddings, has the wrong length or a nan or inf component is refused
\* with a 4xx response, and find_best_match is not called
C22_MalformedNeverRanked ==
    /\ call.op = "compare_embeddings"
    /\ \/ Missized(call.query_embedding) \/ Contaminated(call.query_embedding)
       \/ \E i \in 1..Len(call.reference_embeddings) :
             \/ Missized(call.reference_embeddings[i].embedding)
             \/ Contaminated(call.reference_embeddings[i].embedding)
    => /\ ~call.ranked
       /\ call.response.status_code \in {400, 422}


\* the calls of the handlers behind dependencies=[Depends(verify_token)]
ProtectedOps == RequestOps \cup {"model_info"}

ImageOps == {"extract_embedding", "compare_photos", "compare_photos_upload"}

\* where in the stages of the call a stage of image i stands
StageAt(i, stage) ==
    {k \in 1..Len(call.stages) : call.stages[k] = [image |-> i, stage |-> stage]}

\* the bytes of image i of the call
BytesOf(i) ==
    IF i = 2 THEN call.image2
    ELSE CASE call.op = "extract_embedding" -> call.image.payload
           [] call.op = "compare_photos" -> call.image1.payload
           [] OTHER -> call.image1

\* the bytes decode to a buffer that validate_image accepts
DecodesToValid(bytes) ==
    LET image == load_image_from_bytes(bytes)
    IN  image.ok /\ validate_image(image.val).valid

\* C26: in embed, compare_photos and compare_photos_upload, get_embedding is
\* called for an image, and the backend invoked on it, only after the image
\* was decoded and then went through preprocess_image, in that order, and
\* only if the decoded buffer passes validate_image
C26_ValidatedBeforeInference ==
    call.op \in ImageOps =>
        \A i \in {1, 2} :
            \A k \in StageAt(i, "get_embedding") \cup StageAt(i, "model.get") :
                /\ \E j \in StageAt(i, "load_image_from_bytes"),
                      m \in StageAt(i, "preprocess_image") : j < m /\ m < k
                /\ DecodesToValid(BytesOf(i))

\* C26 witness: in compare_photos the second image, a 20 x 20 PNG, was
\* decoded and refused by preprocess_image, and get_embedding was called for
\* the first image only
C26_SmallImageNotEmbedded ==
    /\ call.op = "compare_photos"
    /\ call.image2.width = 20
    /\ StageAt(1, "model.get") # {}
    /\ StageAt(2, "load_image_from_bytes") # {} /\ StageAt(2, "preprocess_image") # {}
    /\ StageAt(2, "get_embedding") = {}
    /\ call.response = Response(400, [error_code |-> "INVALID_IMAGE"])


\* where in the stages of the call anything is done with image i
StagesOfImage(i) == {k \in 1..Len(call.stages) : call.stages[k].image = i}

\* the model instance the handlers are served with: the one a successful
\* initialize_model leaves
ServingInstance ==
    CHOOSE inst \in {initialize_model(outcome).instance :
                       outcome \in {o \in LoadOutcomes : initialize_model(o).ret.ok}} : TRUE

\* the first of the stages of the first image of compare_photos that fails,
\* each stage taken by itself; Ok when none fails
FirstImageFailure ==
    LET fetched == fetch_image_from_url(call.image1).ret
    IN  IF ~fetched.ok THEN fetched
        ELSE LET img1 == preprocess_image(fetched.val)
             IN  IF ~img1.ok THEN img1
                 ELSE LET got1 == get_embedding(ServingInstance, call.answer1, TRUE).ret
                      IN  IF ~got1.ok THEN got1 ELSE Ok("no stage failed")

\* C28: compare_photos fetches the first image with one request at most,
\* preprocesses and embeds it before anything is done with the second image;
\* when a stage of the first image fails the second image is not read,
\* decoded or sent to the backend and the response is the error of that
\* stage; a 200 is answered only when the backend ran on both images and both
\* embeddings were extracted
C28_FailsFast ==
    call.op = "compare_photos" =>
        /\ Cardinality(StageAt(1, "requests.get")) <= 1
        /\ \A k \in StagesOfImage(2) :
               \E f \in StageAt(1, "fetch_image_from_url"),
                  p \in StageAt(1, "preprocess_image"),
                  e \in StageAt(1, "get_embedding") : f < p /\ p < e /\ e < k
        /\ (StageAt(1, "fetch_image_from_url") # {} /\ ~FirstImageFailure.ok
               => StagesOfImage(2) = {} /\ call.response = respond(FirstImageFailure))
        /\ (call.response.status_code = 200
               => /\ StageAt(1, "model.get") # {} /\ StageAt(2, "model.get") # {}
                  /\ get_embedding(ServingInstance, call.answer1, TRUE).ret.ok
                  /\ get_embedding(ServingInstance, call.answer2, TRUE).ret.ok)

\* C28 witness: the backend found no face in the first image; the second
\* image, a file that decodes and passes validation, was not touched
C28_SecondImageNotRead ==
    /\ call.op = "compare_photos"
    /\ StageAt(1, "model.get") # {}
    /\ call.response = Response(400, [error_code |-> "NO_FACE_DETECTED"])
    /\ DecodesToValid(call.image2)
    /\ StagesOfImage(2) = {}


---------------------------------------------------------------------------
(* main.py: requests served concurrently by the event loop of one process.
   The handlers are coroutines (async def): a handler that runs keeps the
   loop until it awaits or returns, and lifespan is a coroutine of the same
   loop. Under SpecAsync call holds the loop: the handler calls in progress
   (tasks), the one that runs (running, 0 when the loop is free) and the
   calls that are inside self.model.get (inference). The requests carry a
   valid token. *)

\* the number of handler calls in progress together
MaxTasks == 2

Tasks == 1..MaxTasks

NoTask == [status |-> "none"]

NoResponse == Response(0, [error_code |-> "None"])

AsyncInit ==
    /\ phase = "created"
    /\ instance = NoInstance
    /\ call = [op |-> "event_loop", tasks |-> [t \in Tasks |-> NoTask],
               running |-> 0, inference |-> {}]

\* mutant of Suspends: self.model.get gives the loop away as an await does
Suspends_in_model_get(stage) == stage \in {"read", "model.get"}

\* the statements at which a handler is suspended: await image.read()
Suspends(stage) == stage = "read"

TheUrl == [scheme |-> "https", net |-> "ok", payload |-> Payload(1000, "image", "JPEG", "RGB", 100, 100)]

AsyncFiles ==
    {Payload(1000, "image", "JPEG", "RGB", 100, 100),
     Payload(1000, "garbage", "None", "None", 0, 0)}

\* what the backend answers: no face, or one face
AsyncAnswers == {BackendAnswer(FALSE, <<>>), BackendAnswer(FALSE, <<TheFace>>)}

HandlerCall(handler, image1, image2, distance_metric, answer1, answer2) ==
    [handler |-> handler, image1 |-> image1, image2 |-> image2,
     distance_metric |-> distance_metric, answer1 |-> answer1, answer2 |-> answer2]

\* the handler calls made, with their arguments and what the backend answers
\* for their images (a call of extract_embedding has one image)
AsyncRequests ==
    {HandlerCall("extract_embedding", b64encode(TheUrl.payload), TheUrl.payload, "cosine",
                 answer, answer) : answer \in AsyncAnswers}
        \cup {HandlerCall("compare_photos", TheUrl, TheUrl.payload, "cosine", answer1,
                          BackendAnswer(FALSE, <<TheFace>>)) : answer1 \in AsyncAnswers}
        \cup {HandlerCall("compare_photos_upload", image1, TheUrl.payload, "euclidean",
                          BackendAnswer(FALSE, <<TheFace>>),
                          BackendAnswer(FALSE, <<TheFace>>)) : image1 \in AsyncFiles}

\* the handler of the request, run with the model instance inst
Run(inst, request) ==
    CASE request.handler = "extract_embedding" ->
            extract_embedding_run(inst, [image |-> request.image1], request.answer1)
      [] request.handler = "compare_photos" ->
            compare_photos_run(inst, request.image1, request.image2, request.distance_metric,
                               request.answer1, request.answer2)
      [] OTHER ->
            compare_photos_upload_run(inst, request.image1, request.image2,
                                      request.distance_metric, request.answer1,
                                      request.answer2)

\* mutant of RequestOf: the arguments of a handler are kept in one place, and
\* each new call overwrites them
RequestOf_last_call(tasks, t) ==
    tasks[CHOOSE u \in Tasks : /\ tasks[u].status # "none"
                               /\ \A v \in Tasks : v > u => tasks[v].status = "none"].request

\* the arguments of the handler call t: parameters, local to the call
RequestOf(tasks, t) == tasks[t].request

\* the model the call t works with: its local variable model once it has
\* called get_model(), _model_instance until then
HandleFor(task) == IF task.has_model THEN task.model ELSE instance

\* the stages the call t runs, and what it returns or raises
RunOf(t) == Run(HandleFor(call.tasks[t]), RequestOf(call.tasks, t))

\* the next stage of the call t ("return" when there is none)
NextStage(t) ==
    CHOOSE stage \in {IF call.tasks[t].at < Len(run.trace)
                      THEN run.trace[call.tasks[t].at + 1].stage
                      ELSE "return" : run \in {RunOf(t)}} : TRUE

\* the stages at which the loop, the model or the backend comes in
Marked(stage) == stage \in {"get_model", "model.get"} \/ Suspends(stage)

\* the last of the plain calls that follow the stage at of the trace
LastPlain(trace, at) ==
    CHOOSE k \in at..Len(trace) :
        /\ \A j \in (at + 1)..k : ~Marked(trace[j].stage)
        /\ k = Len(trace) \/ Marked(trace[k + 1].stage)

Runs(t) == call.running = t /\ call.tasks[t].status = "running"

\* a request arrives and the handler call is created
Submit ==
    /\ phase = "serving"
    /\ call.running = 0
    /\ \E t \in Tasks, request \in AsyncRequests :
          /\ call.tasks[t].status = "none"
          /\ \A u \in Tasks : u < t => call.tasks[u].status # "none"
          /\ call' = [call EXCEPT !.tasks[t] =
                        [status |-> "ready", request |-> request, at |-> 0,
                         has_model |-> FALSE, model |-> NoInstance,
                         overtaken |-> FALSE, response |-> NoResponse]]
    /\ UNCHANGED <<phase, instance>>

\* the loop is free and runs a call that is new or was suspended; the other
\* calls that wait in the middle of their handler have been overtaken
Resume ==
    /\ call.running = 0
    /\ \E t \in Tasks :
          /\ call.tasks[t].status = "ready"
          /\ call' = [call EXCEPT
                        !.running = t,
                        !.tasks = [u \in Tasks |->
                            IF u = t THEN [call.tasks[u] EXCEPT !.status = "running"]
                            ELSE IF call.tasks[u].status \in {"ready", "in model.get"}
                                    /\ call.tasks[u].at > 0
                                 THEN [call.tasks[u] EXCEPT !.overtaken = TRUE]
                                 ELSE call.tasks[u]]]
    /\ UNCHANGED <<phase, instance>>

\* the stages that are plain calls, up to the next one that is not
Advance ==
    /\ \E t \in Tasks :
          /\ Runs(t)
          /\ NextStage(t) # "return"
          /\ ~Marked(NextStage(t))
          /\ \E run \in {RunOf(t)} :
                call' = [call EXCEPT !.tasks[t].at = LastPlain(run.trace, @)]
    /\ UNCHANGED <<phase, instance>>

\* model = get_model()
GetModel ==
    /\ \E t \in Tasks :
          /\ Runs(t)
          /\ NextStage(t) = "get_model"
          /\ call' = [call EXCEPT !.tasks[t].at = @ + 1,
                                  !.tasks[t].has_model = get_model(instance).ok,
                                  !.tasks[t].model = instance]
    /\ UNCHANGED <<phase, instance>>

\* await image.read(): the call is suspended and the loop is free
Await ==
    /\ \E t \in Tasks :
          /\ Runs(t)
          /\ NextStage(t) \notin {"return", "get_model", "model.get"}
          /\ Suspends(NextStage(t))
          /\ call' = [call EXCEPT !.tasks[t].at = @ + 1, !.tasks[t].status = "ready",
                                  !.running = 0]
    /\ UNCHANGED <<phase, instance>>

\* self.model.get(image) is entered
BeginInference ==
    /\ \E t \in Tasks :
          /\ Runs(t)
          /\ NextStage(t) = "model.get"
          /\ call' = [call EXCEPT !.tasks[t].at = @ + 1,
                                  !.tasks[t].status = "in model.get",
                                  !.inference = @ \cup {t},
                                  !.running = IF Suspends("model.get") THEN 0 ELSE t]
    /\ UNCHANGED <<phase, instance>>

\* self.model.get(image) returns or raises
EndInference ==
    /\ \E t \in Tasks :
          /\ call.tasks[t].status = "in model.get"
          /\ call' = [call EXCEPT !.tasks[t].status =
                                      IF call.running = t THEN "running" ELSE "ready",
                                  !.inference = @ \ {t}]
    /\ UNCHANGED <<phase, instance>>

\* the handler returns or raises, and the response is sent
Finish ==
    /\ \E t \in Tasks :
          /\ Runs(t)
          /\ NextStage(t) = "return"
          /\ \E run \in {RunOf(t)} :
                call' = [call EXCEPT !.tasks[t].status = "done",
                                     !.tasks[t].response = respond(run.ret),
                                     !.tasks[t].has_model = FALSE,
                                     !.tasks[t].model = NoInstance,
                                     !.running = 0]
    /\ UNCHANGED <<phase, instance>>

\* lifespan after the yield, run by the loop when it is free
LoopShutdown ==
    /\ call.running = 0
    /\ Shutdown

AsyncNext ==
    \/ Startup
    \/ LoopShutdown
    \/ Submit
    \/ Resume
    \/ Advance
    \/ GetModel
    \/ Await
    \/ BeginInference
    \/ EndInference
    \/ Finish

SpecAsync == AsyncInit /\ [][AsyncNext]_vars

---------------------------------------------------------------------------
(* Claims about concurrent requests, under SpecAsync *)

\* C27: at most one call of self.model.get is in progress at any time, for
\* every interleaving of extract_embedding, compare_photos and
\* compare_photos_upload calls, and while one is in progress the call that
\* made it keeps the loop
C27_OneInferenceAtATime ==
    call.op = "event_loop" =>
        /\ Cardinality(call.inference) <= 1
        /\ \A t \in call.inference : call.running = t

\* C27 witness: a call is inside self.model.get while another call, suspended
\* at an await in the middle of its handler, waits for the loop
C27_InferenceWhileAnotherWaits ==
    /\ call.op = "event_loop"
    /\ \E t \in Tasks, u \in Tasks :
          /\ t # u
          /\ call.inference = {t}
          /\ call.tasks[u].status = "ready" /\ call.tasks[u].at > 0

\* C29: once cleanup_model has run no call of self.model.get is in progress,
\* whatever the calls that were suspended when it ran
C29_NoInferenceAfterCleanup ==
    call.op = "event_loop" /\ phase = "stopped" => call.inference = {}

====
